---------------------------- MODULE Spec2Model ----------------------------
(* A model of src/app.py: the transcript parsers, the matcher, the         *)
(* combiner and the SGPA/CGPA aggregation, with the two upload routes.     *)
(*                                                                          *)
(* Text is held as Python holds it: a string is a sequence of one-character *)
(* strings, a text is the sequence of its lines (text.split('\n')), and a   *)
(* dict is the sequence of its items in insertion order.  Regular           *)
(* expressions are data interpreted by a backtracking matcher that tries    *)
(* the alternatives in the order Python's re module tries them.             *)
(*                                                                          *)
(* Credits are floats in the source.  The model holds a credit in tenths    *)
(* (4.0 is 40) and draws only multiples of 0.5, which binary floating point *)
(* holds exactly, so that sums and products of the model are the floats the *)
(* program computes.  An SGPA or CGPA is held in hundredths (8.86 is 886).  *)
EXTENDS Integers, Sequences, FiniteSets, TLC

VARIABLES pc,      \* the position of the running function or request handler
          frame    \* the arguments, local variables and results of the functions
                   \* that have been called, under the source's names

vars == <<pc, frame>>

None == <<"None">>

-----------------------------------------------------------------------------
(* Strings *)

S(s) == [i \in 1..Len(s) |-> SubSeq(s, i, i)]

Range(f) == {f[i] : i \in DOMAIN f}

Min(set) == CHOOSE x \in set : \A y \in set : x <= y
Max(set) == CHOOSE x \in set : \A y \in set : x >= y

UpperSeq == S("ABCDEFGHIJKLMNOPQRSTUVWXYZ")
LowerSeq == S("abcdefghijklmnopqrstuvwxyz")
DigitSeq == S("0123456789")

UpperCh == Range(UpperSeq)
LowerCh == Range(LowerSeq)
Digit == Range(DigitSeq)
Alpha == UpperCh \cup LowerCh
Alnum == Alpha \cup Digit
WordCh == Alnum \cup {"_"}
Space == {" ", "\t"}

IndexIn(seq, c) == CHOOSE i \in DOMAIN seq : seq[i] = c

upper_ch(c) == IF c \in LowerCh THEN UpperSeq[IndexIn(LowerSeq, c)] ELSE c
lower_ch(c) == IF c \in UpperCh THEN LowerSeq[IndexIn(UpperSeq, c)] ELSE c

upper(s) == [i \in DOMAIN s |-> upper_ch(s[i])]
lower(s) == [i \in DOMAIN s |-> lower_ch(s[i])]

DigitVal(c) == IndexIn(DigitSeq, c) - 1

isdigit(s) == Len(s) > 0 /\ \A i \in DOMAIN s : s[i] \in Digit

\* s.strip(): from the first to the last character that is not white space
strip(s) ==
    LET keep == {i \in DOMAIN s : s[i] \notin Space}
    IN IF keep = {} THEN <<>> ELSE SubSeq(s, Min(keep), Max(keep))

NotBlank(c) == c # " "

\* s.replace(" ", "")
remove_spaces(s) == SelectSeq(s, NotBlank)

\* sub in s
StartsAt(s, i, sub) ==
    /\ i + Len(sub) - 1 <= Len(s)
    /\ \A j \in 1..Len(sub) : s[i + j - 1] = sub[j]

Contains(s, sub) == \E i \in 1..(Len(s) + 1) : StartsAt(s, i, sub)

\* s.replace(old, new), old not empty: every occurrence, left to right
RECURSIVE replace(_, _, _)
replace(s, old, new) ==
    IF s = <<>> THEN <<>>
    ELSE IF StartsAt(s, 1, old)
         THEN new \o replace(SubSeq(s, Len(old) + 1, Len(s)), old, new)
         ELSE <<Head(s)>> \o replace(Tail(s), old, new)

\* s.split()[0], s holding a character that is not white space
first_token(s) ==
    LET from == Min({i \in DOMAIN s : s[i] \notin Space})
        stops == {i \in from..Len(s) : s[i] \in Space}
    IN SubSeq(s, from, IF stops = {} THEN Len(s) ELSE Min(stops) - 1)

-----------------------------------------------------------------------------
(* Regular expressions.  A pattern is its items in order and the item spans *)
(* of its capturing groups.  An item is a run of single characters (fix), a *)
(* repeated character class (cls), a choice between item sequences (alt),   *)
(* \b or $.                                                                 *)

Rep(set, lo, hi) == [k |-> "cls", any |-> FALSE, set |-> set, lo |-> lo, hi |-> hi, greedy |-> TRUE]
Plus(set) == Rep(set, 1, -1)
Star(set) == Rep(set, 0, -1)
Dot(lo, greedy) == [k |-> "cls", any |-> TRUE, set |-> {}, lo |-> lo, hi |-> -1, greedy |-> greedy]
Fix(sets) == [k |-> "fix", sets |-> sets]
Lit(s) == Fix([i \in DOMAIN s |-> {s[i]}])
ILit(s) == Fix([i \in DOMAIN s |-> {lower_ch(s[i]), upper_ch(s[i])}])
Alt(alts) == [k |-> "alt", alts |-> alts]
WordB == [k |-> "wordb"]
Eol == [k |-> "eol"]

\* items outside a group, items that are a group, and concatenation
N(items) == [items |-> items, groups |-> <<>>]
G(items) == [items |-> items, groups |-> <<[from |-> 1, to |-> Len(items)]>>]
Cat(p, q) ==
    [items |-> p.items \o q.items,
     groups |-> p.groups \o
                [i \in DOMAIN q.groups |->
                    [from |-> q.groups[i].from + Len(p.items),
                     to |-> q.groups[i].to + Len(p.items)]]]

Fail == [ok |-> FALSE, start |-> 0, ends |-> <<>>]

IsWord(s, i) == i >= 1 /\ i <= Len(s) /\ s[i] \in WordCh

\* the longest run of the class from pos, up to the item's maximum
RunLen(it, s, pos) ==
    LET most == IF it.hi = -1 \/ it.hi > Len(s) + 1 - pos THEN Len(s) + 1 - pos ELSE it.hi
        stops == {n \in 0..(most - 1) : ~(it.any \/ s[pos + n] \in it.set)}
    IN IF stops = {} THEN most ELSE Min(stops)

FixAt(it, s, pos) ==
    /\ pos + Len(it.sets) - 1 <= Len(s)
    /\ \A j \in DOMAIN it.sets : s[pos + j - 1] \in it.sets[j]

RECURSIVE MatchAt(_, _, _)

\* the try numbered n of the tries that matched
TryAt(good, n) == (CHOOSE x \in good : x[1] = n)[2]

\* of the counts that let the rest match, the one the matcher reaches first
RepCount(it, good) ==
    IF it.greedy THEN Max({x[1] : x \in good}) ELSE Min({x[1] : x \in good})

RepChoice(it, pos, good) ==
    IF good = {} THEN Fail
    ELSE [TryAt(good, RepCount(it, good)) EXCEPT !.ends = <<pos + RepCount(it, good)>> \o @]

\* the match of the rest after the alternative i of w items, the alternative
\* counting as one item
AltEnds(r, w, pos) ==
    [r EXCEPT !.ends = <<IF w = 0 THEN pos ELSE r.ends[w]>> \o SubSeq(r.ends, w + 1, Len(r.ends))]

AltChoice(it, pos, good) ==
    IF good = {} THEN Fail
    ELSE AltEnds(TryAt(good, Min({x[1] : x \in good})),
                 Len(it.alts[Min({x[1] : x \in good})]), pos)

\* the leftmost of the starts that matched
Leftmost(good) ==
    IF good = {} THEN Fail
    ELSE [TryAt(good, Min({x[1] : x \in good})) EXCEPT !.start = Min({x[1] : x \in good})]

\* a repetition followed by the rest: the counts that let the rest match, and
\* of them the one the matcher reaches first (a greedy repetition tries the
\* longest run first, a lazy one the shortest)
MatchRep(it, rest, s, pos) ==
    RepChoice(it, pos, {x \in {<<n, MatchAt(rest, s, pos + n)>> : n \in it.lo..RunLen(it, s, pos)} :
                          x[2].ok})

\* a choice followed by the rest: the first alternative that lets the rest match
MatchAlt(it, rest, s, pos) ==
    AltChoice(it, pos, {x \in {<<i, MatchAt(it.alts[i] \o rest, s, pos)>> : i \in DOMAIN it.alts} :
                          x[2].ok})

\* the items matched from pos on: ends[i] is the position after item i
MatchAt(items, s, pos) ==
    IF items = <<>> THEN [ok |-> TRUE, start |-> 0, ends |-> <<>>]
    ELSE LET it == Head(items)
             rest == Tail(items)
             here == MatchAt(rest, s, pos)
         IN CASE it.k = "fix" ->
                   IF FixAt(it, s, pos)
                   THEN LET r == MatchAt(rest, s, pos + Len(it.sets))
                        IN IF r.ok THEN [r EXCEPT !.ends = <<pos + Len(it.sets)>> \o @] ELSE Fail
                   ELSE Fail
              [] it.k = "wordb" ->
                   IF IsWord(s, pos - 1) # IsWord(s, pos) /\ here.ok
                   THEN [here EXCEPT !.ends = <<pos>> \o @] ELSE Fail
              [] it.k = "eol" ->
                   IF pos = Len(s) + 1 /\ here.ok
                   THEN [here EXCEPT !.ends = <<pos>> \o @] ELSE Fail
              [] it.k = "alt" -> MatchAlt(it, rest, s, pos)
              [] it.k = "cls" -> MatchRep(it, rest, s, pos)

\* re.search(pattern, s): the match at the leftmost position that has one
search(p, s) ==
    Leftmost({x \in {<<i, MatchAt(p.items, s, i)>> : i \in 1..(Len(s) + 1)} : x[2].ok})

ItemStart(m, i) == IF i = 1 THEN m.start ELSE m.ends[i - 1]

\* match.group(n), match.group(0), match.end()
group(p, m, s, n) == SubSeq(s, ItemStart(m, p.groups[n].from), m.ends[p.groups[n].to] - 1)
group0(m, s) == SubSeq(s, m.start, (IF m.ends = <<>> THEN m.start ELSE m.ends[Len(m.ends)]) - 1)
match_end(m) == IF m.ends = <<>> THEN m.start ELSE m.ends[Len(m.ends)]

-----------------------------------------------------------------------------
(* Code Normalizer *)

\* (\d+)([A-Za-z]+)(\d+)([A-Za-z]+)
CoreRe == Cat(Cat(G(<<Plus(Digit)>>), G(<<Plus(Alpha)>>)), Cat(G(<<Plus(Digit)>>), G(<<Plus(Alpha)>>)))

\* (\d+)([A-Za-z]+)(\d+)([A-Za-z]+)([A-Za-z0-9]+)
NormRe == Cat(CoreRe, G(<<Plus(Alnum)>>))

\* a normalizer that returns the four structural groups without the suffix
four_groups(code, match) ==
    IF match.ok THEN SubSeq(code, match.start, match.ends[4] - 1) ELSE code

normalize_four_groups(code) ==
    four_groups(remove_spaces(strip(code)), search(NormRe, remove_spaces(strip(code))))

\* if match: return match.group(0); return code
whole_match(code, match) == IF match.ok THEN group0(match, code) ELSE code

normalize_subject_code(code) ==
    whole_match(remove_spaces(strip(code)), search(NormRe, remove_spaces(strip(code))))

\* if match: return match.groups(); return None, None, None, None
core_groups(code, match) ==
    IF match.ok
    THEN [year |-> group(CoreRe, match, code, 1), dept |-> group(CoreRe, match, code, 2),
          sem |-> group(CoreRe, match, code, 3), type_code |-> group(CoreRe, match, code, 4)]
    ELSE [year |-> None, dept |-> None, sem |-> None, type_code |-> None]

extract_core_code_parts(code) == core_groups(code, search(CoreRe, code))

-----------------------------------------------------------------------------
(* dict: the items in insertion order; a key written again keeps its place *)

Has(d, k) == \E i \in DOMAIN d : d[i].k = k

Get(d, k) == d[CHOOSE i \in DOMAIN d : d[i].k = k].v

Put(d, k, v) ==
    IF Has(d, k)
    THEN LET i == CHOOSE j \in DOMAIN d : d[j].k = k
         IN SubSeq(d, 1, i - 1) \o <<[k |-> k, v |-> v]>> \o SubSeq(d, i + 1, Len(d))
    ELSE Append(d, [k |-> k, v |-> v])

Keys(d) == [i \in DOMAIN d |-> d[i].k]

\* d.get(k, default)
GetOr(d, k, default) == IF Has(d, k) THEN Get(d, k) ELSE default

-----------------------------------------------------------------------------
(* Tables *)

GradeKeys == <<S("O"), S("A+"), S("A"), S("B+"), S("B"), S("C"), S("P"), S("F")>>

GRADE_POINTS ==
    <<[k |-> S("O"), v |-> 10], [k |-> S("A+"), v |-> 9], [k |-> S("A"), v |-> 8],
      [k |-> S("B+"), v |-> 7], [k |-> S("B"), v |-> 6], [k |-> S("C"), v |-> 5],
      [k |-> S("P"), v |-> 4], [k |-> S("F"), v |-> 0]>>

\* the keys of DEPARTMENT_CODES, in the order of the table
DEPARTMENT_CODES ==
    <<S("CV"), S("ME"), S("ES"), S("EC"), S("IM"), S("CS"), S("ET"), S("IS"), S("EI"),
      S("MD"), S("CH"), S("BT"), S("AS"), S("AM"), S("DS"), S("DC"), S("AI"), S("BS")>>

-----------------------------------------------------------------------------
(* Course Parser: parse_course_data, one loop iteration at a time.  Its     *)
(* locals are frame.pcd.                                                    *)

\* float(text) in tenths, for digits with at most one digit after the point
RECURSIVE int_of(_)
int_of(s) == IF s = <<>> THEN 0 ELSE 10 * int_of(SubSeq(s, 1, Len(s) - 1)) + DigitVal(s[Len(s)])

float_tenths(s) ==
    IF Contains(s, S("."))
    THEN LET p == CHOOSE i \in DOMAIN s : s[i] = "."
         IN 10 * int_of(SubSeq(s, 1, p - 1)) + DigitVal(s[p + 1])
    ELSE 10 * int_of(s)

\* (\d+(?:\.\d+)?)
CreditRe == G(<<Plus(Digit), Alt(<< <<Lit(S(".")), Plus(Digit)>>, <<>> >>)>>)

\* (2\d[A-Za-z0-9]{6,10})
CourseCodeRe == G(<<Fix(<<{"2"}, Digit>>), Rep(Alnum, 6, 10)>>)

\* (.+?)\s+(2\d[A-Za-z0-9]{6,10})\s+\w+\s+\d+\s+(\d+(?:\.\d+)?)
CoursePattern2 ==
    Cat(Cat(G(<<Dot(1, FALSE)>>), N(<<Plus(Space)>>)),
        Cat(CourseCodeRe,
            Cat(N(<<Plus(Space), Plus(WordCh), Plus(Space), Plus(Digit), Plus(Space)>>),
                CreditRe)))

\* \d+\s+(.+?)\s+(2\d[A-Za-z0-9]{6,10})\s+\w+\s+\d+\s+(\d+(?:\.\d+)?)
CoursePattern1 == Cat(N(<<Plus(Digit), Plus(Space)>>), CoursePattern2)

\* (.+?)\s+(2\d[A-Za-z0-9]{6,10})\s+.*?(\d+(?:\.\d+)?)$
CoursePattern3 ==
    Cat(Cat(G(<<Dot(1, FALSE)>>), N(<<Plus(Space)>>)),
        Cat(CourseCodeRe, Cat(N(<<Plus(Space), Dot(0, FALSE)>>), Cat(CreditRe, N(<<Eol>>)))))

course_patterns == <<CoursePattern1, CoursePattern2, CoursePattern3>>

\* the dict after the writes kvs made in order: a key already held keeps its
\* place and takes the last value written, a new key is appended where it is
\* first written
PutAll(d, kvs) ==
    LET last(k) == kvs[Max({j \in DOMAIN kvs : kvs[j].k = k})].v
        old == [i \in DOMAIN d |->
                  IF \E j \in DOMAIN kvs : kvs[j].k = d[i].k
                  THEN [k |-> d[i].k, v |-> last(d[i].k)] ELSE d[i]]
        fresh == {j \in DOMAIN kvs : /\ ~Has(d, kvs[j].k)
                                     /\ \A h \in 1..(j - 1) : kvs[h].k # kvs[j].k}
        nth(n) == CHOOSE j \in fresh : Cardinality({h \in fresh : h < j}) = n - 1
    IN old \o [n \in 1..Cardinality(fresh) |-> [k |-> kvs[nth(n)].k, v |-> last(kvs[nth(n)].k)]]

\* course_credits and subject_names written under the code and its normalized form
store_course(st, subject_code, subject_name, credit) ==
    LET normalized_code == normalize_subject_code(subject_code)
    IN [st EXCEPT
          !.course_credits = Put(Put(@, subject_code, credit), normalized_code, credit),
          !.subject_names = Put(Put(@, subject_code, subject_name), normalized_code, subject_name)]

\* the first of the three patterns that matches the line, 0 when none does
first_pattern(line) ==
    LET hits == {n \in DOMAIN course_patterns : search(course_patterns[n], line).ok}
    IN IF hits = {} THEN 0 ELSE Min(hits)

\* the record a line of the course section yields
course_record(st, line) ==
    LET n == first_pattern(line)
        p == course_patterns[n]
        m == search(p, line)
    IN IF n = 0 THEN st
       ELSE store_course(st, strip(group(p, m, line, 2)), strip(group(p, m, line, 1)),
                         float_tenths(strip(group(p, m, line, 3))))

\* a loop that tries the patterns on every line that is no header, in a
\* section or not
course_line_unsectioned(st, line) ==
    IF Contains(line, S("Course Details")) \/ Contains(line, S("Course Title"))
    THEN [st EXCEPT !.in_course_section = TRUE]
    ELSE IF st.in_course_section /\ Contains(line, S("Total Credits"))
    THEN [st EXCEPT !.in_course_section = FALSE]
    ELSE course_record(st, line)

\* one iteration of the loop over the lines
course_line(st, line) ==
    IF Contains(line, S("Course Details")) \/ Contains(line, S("Course Title"))
    THEN [st EXCEPT !.in_course_section = TRUE]
    ELSE IF st.in_course_section /\ Contains(line, S("Total Credits"))
    THEN [st EXCEPT !.in_course_section = FALSE]
    ELSE IF st.in_course_section THEN course_record(st, line)
    ELSE st

special_subject_words ==
    << <<S("Biology"), S("for"), S("Engineers")>>, <<S("Environmental"), S("Studies")>>,
       <<S("Constitution"), S("of"), S("India")>>, <<S("Mathematics")>> >>

\* the words of a name separated by \s+, under re.IGNORECASE
NameRe(words) ==
    <<ILit(words[1])>> \o
    (IF Len(words) > 1 THEN <<Plus(Space), ILit(words[2])>> ELSE <<>>) \o
    (IF Len(words) > 2 THEN <<Plus(Space), ILit(words[3])>> ELSE <<>>)

\* (Biology\s+for\s+Engineers)\s+(2\d[A-Za-z0-9]{6,10}), re.IGNORECASE
SpecialCourseRe(words) == Cat(G(NameRe(words)), Cat(N(<<Plus(Space)>>), CourseCodeRe))

\* (\d+(?:\.\d+)?)$
TrailingCreditRe == Cat(CreditRe, N(<<Eol>>))

\* one line under one special-subject pattern
special_course_line(st, words, line) ==
    LET p == SpecialCourseRe(words)
        special_match == search(p, line)
        credit_match == search(TrailingCreditRe, line)
    IN IF special_match.ok /\ credit_match.ok
       THEN store_course(st, strip(group(p, special_match, line, 2)),
                         strip(group(p, special_match, line, 1)),
                         float_tenths(strip(group(TrailingCreditRe, credit_match, line, 1))))
       ELSE st

\* the keys written for one code: for every other department, in the order of
\* DEPARTMENT_CODES, code.replace(dept, alt_dept) and then its normalized form
alias_keys(code, dept) ==
    LET others == SelectSeq(DEPARTMENT_CODES, LAMBDA d : d # dept)
    IN [n \in 1..(2 * Len(others)) |->
          LET alt_code == replace(code, dept, others[(n + 1) \div 2])
          IN IF n % 2 = 1 THEN alt_code ELSE normalize_subject_code(alt_code)]

\* one iteration of the loop over list(course_credits.keys())
alias_code(st, code) ==
    LET parts == extract_core_code_parts(code)
        credit == Get(st.course_credits, code)
        name == GetOr(st.subject_names, code, <<>>)
        keys == alias_keys(code, parts.dept)
    IN IF parts.year # None
       THEN [st EXCEPT
               !.course_credits = PutAll(@, [n \in DOMAIN keys |-> [k |-> keys[n], v |-> credit]]),
               !.subject_names = PutAll(@, [n \in DOMAIN keys |-> [k |-> keys[n], v |-> name]])]
       ELSE st

\* subject_name_map: name.lower().replace(" ", "") -> code, over subject_names.items()
name_map(subject_names) ==
    PutAll(<<>>, [i \in DOMAIN subject_names |->
                    [k |-> remove_spaces(lower(subject_names[i].v)), v |-> subject_names[i].k]])

CourseStart(lines) ==
    [lines |-> lines, i |-> 1, in_course_section |-> FALSE, course_credits |-> <<>>,
     subject_names |-> <<>>, p |-> 1, codes |-> <<>>, c |-> 1, subject_name_map |-> <<>>]

\* for i, line in enumerate(lines)
CourseLine ==
    /\ pc = "pcd_lines"
    /\ frame.pcd.i <= Len(frame.pcd.lines)
    /\ frame' = [frame EXCEPT
                   !.pcd = [course_line(@, @.lines[@.i]) EXCEPT !.i = @ + 1]]
    /\ UNCHANGED pc

CourseLinesDone ==
    /\ pc = "pcd_lines"
    /\ frame.pcd.i > Len(frame.pcd.lines)
    /\ frame' = [frame EXCEPT !.pcd.i = 1, !.pcd.p = 1]
    /\ pc' = "pcd_special"

\* for pattern, identifier in special_subject_patterns: for line in lines
CourseSpecial ==
    /\ pc = "pcd_special"
    /\ frame.pcd.p <= Len(special_subject_words)
    /\ frame' = [frame EXCEPT !.pcd =
          IF @.i > Len(@.lines) THEN [@ EXCEPT !.p = @ + 1, !.i = 1]
          ELSE [special_course_line(@, special_subject_words[@.p], @.lines[@.i])
                   EXCEPT !.i = @ + 1]]
    /\ UNCHANGED pc

CourseSpecialDone ==
    /\ pc = "pcd_special"
    /\ frame.pcd.p > Len(special_subject_words)
    /\ frame' = [frame EXCEPT !.pcd.codes = Keys(frame.pcd.course_credits), !.pcd.c = 1]
    /\ pc' = "pcd_alias"

\* for code in list(course_credits.keys())
CourseAlias ==
    /\ pc = "pcd_alias"
    /\ frame.pcd.c <= Len(frame.pcd.codes)
    /\ frame' = [frame EXCEPT !.pcd = [alias_code(@, @.codes[@.c]) EXCEPT !.c = @ + 1]]
    /\ UNCHANGED pc

CourseNames ==
    /\ pc = "pcd_alias"
    /\ frame.pcd.c > Len(frame.pcd.codes)
    /\ frame' = [frame EXCEPT !.pcd.subject_name_map = name_map(frame.pcd.subject_names)]
    /\ pc' = "pcd_return"

parse_course_data == 
    \/ CourseLine \/ CourseLinesDone \/ CourseSpecial \/ CourseSpecialDone
    \/ CourseAlias \/ CourseNames

-----------------------------------------------------------------------------
(* Result Parser *)

GradeCh == {"O", "A", "B", "C", "P", "F", "o", "+"}

\* 2\d[A-Za-z]{2}\d[A-Za-z]{2,7}
CodeHeadRe == N(<<Fix(<<{"2"}, Digit, Alpha, Alpha, Digit>>), Rep(Alpha, 2, 7)>>)

\* \b2\d[A-Za-z]{2}\d[A-Za-z]{2,7}
SubjectLineRe == Cat(N(<<WordB>>), CodeHeadRe)

\* (2\d[A-Za-z]{2}\d[A-Za-z]{2,7}[A-Za-z0-9]*)
ResultCodeRe == G(CodeHeadRe.items \o <<Star(Alnum)>>)

\* \s+\d+.*$
NameTailRe == N(<<Plus(Space), Plus(Digit), Dot(0, TRUE), Eol>>)

\* ([OABCPFo+]+)$
TrailingGradeRe == Cat(G(<<Plus(GradeCh)>>), N(<<Eol>>))

\* [0-9]+\s+([OABCPFo+]+)$
MarksGradeRe == Cat(N(<<Plus(Digit), Plus(Space)>>), TrailingGradeRe)

\* (2\d[A-Za-z]{2}\d[A-Za-z]{2,7}[A-Za-z0-9]*)\s+(.*?)\s+\d+\s+\d+\s+\d+\s+([OABCPFo+]+)
FullRe ==
    Cat(Cat(ResultCodeRe, N(<<Plus(Space)>>)),
        Cat(G(<<Dot(0, FALSE)>>),
            Cat(N(<<Plus(Space), Plus(Digit), Plus(Space), Plus(Digit), Plus(Space),
                    Plus(Digit), Plus(Space)>>),
                G(<<Plus(GradeCh)>>))))

\* the suffixes of the four special subjects, each with the words of its name
special_result_subjects ==
    <<[suffix |-> <<S("BFE"), S("FBE")>>, words |-> special_subject_words[1]],
      [suffix |-> <<S("ENV")>>, words |-> special_subject_words[2]],
      [suffix |-> <<S("CPH")>>, words |-> special_subject_words[3]],
      [suffix |-> <<S("MAT")>>, words |-> special_subject_words[4]]>>

\* (2\d[A-Za-z]{2}\d[A-Za-z]{2,7}(?:BFE|FBE))\s+(Biology\s+for\s+Engineers), re.IGNORECASE
SpecialResultRe(sp) ==
    Cat(G(CodeHeadRe.items \o
          <<IF Len(sp.suffix) = 1 THEN ILit(sp.suffix[1])
            ELSE Alt(<< <<ILit(sp.suffix[1])>>, <<ILit(sp.suffix[2])>> >>)>>),
        Cat(N(<<Plus(Space)>>), G(NameRe(sp.words))))

\* the name the special pattern stores
special_name(sp) ==
    IF Len(sp.words) = 1 THEN sp.words[1]
    ELSE IF Len(sp.words) = 2 THEN sp.words[1] \o S(" ") \o sp.words[2]
    ELSE sp.words[1] \o S(" ") \o sp.words[2] \o S(" ") \o sp.words[3]

result_keywords == <<special_name(special_result_subjects[1]),
                     special_name(special_result_subjects[2]),
                     special_name(special_result_subjects[3])>>

\* re.sub(r'\s+\d+.*$', '', text): the text up to the first white space that
\* a digit follows
cut_name_tail(text) ==
    LET m == search(NameTailRe, text)
    IN IF m.ok THEN SubSeq(text, 1, m.start - 1) ELSE text

\* grade_match.group(1).strip().upper().replace(" ", "")
grade_of(token) == remove_spaces(upper(strip(token)))

\* the token a pattern with the grade as its last group finds in the line, or None
grade_token(p, line) ==
    LET m == search(p, line)
    IN IF m.ok THEN group(p, m, line, Len(p.groups)) ELSE None

IsGrade(grade) == Has(GRADE_POINTS, grade)

ShortLine == 20

\* for j in range(1, 3): the token of the first of the next two lines that
\* ends in a grade token and is shorter than ShortLine, None without one
next_lines_token(lines, idx) ==
    LET hits == {j \in 1..2 : /\ idx + j <= Len(lines)
                              /\ grade_token(TrailingGradeRe, lines[idx + j]) # None
                              /\ Len(lines[idx + j]) < ShortLine}
    IN IF hits = {} THEN None ELSE grade_token(TrailingGradeRe, lines[idx + Min(hits)])

\* a store that leaves a code the record it already has
store_subject_once(st, subject_code, subject_name, grade, token) ==
    IF Has(st.subjects, subject_code)
    THEN [st EXCEPT !.grade_match = token, !.stored = subject_code]
    ELSE [st EXCEPT !.subjects = Put(@, subject_code,
                                     [name |-> subject_name, grade |-> grade,
                                      normalized_code |-> normalize_subject_code(subject_code)]),
                    !.grade_match = token, !.stored = subject_code]

\* subjects[subject_code] = {...}; the step keeps the token it read and the
\* code it stored
store_subject(st, subject_code, subject_name, grade, token) ==
    [st EXCEPT !.subjects = Put(@, subject_code,
                                [name |-> subject_name, grade |-> grade,
                                 normalized_code |-> normalize_subject_code(subject_code)]),
               !.grade_match = token, !.stored = subject_code]

\* a step that stores nothing
skip_subject(st, token) == [st EXCEPT !.grade_match = token, !.stored = None]

\* the grade a token stands for, None without a token
token_grade(token) == IF token = None THEN None ELSE grade_of(token)

\* if grade == 'O+': grade = 'O'
plus_dropped(grade) == IF grade = S("O+") THEN S("O") ELSE grade

\* the token the pattern finds in the line, else the one of the next lines
first_token_of(own_token, lines, idx) ==
    IF own_token # None THEN own_token ELSE next_lines_token(lines, idx)

line_token(p, lines, idx) == first_token_of(grade_token(p, lines[idx]), lines, idx)

\* a store that takes any token for a grade
store_any_grade(st, subject_code, subject_name, grade, token) ==
    IF token # None THEN store_subject(st, subject_code, subject_name, grade, token)
    ELSE skip_subject(st, token)

\* if grade in GRADE_POINTS: subjects[subject_code] = {...}
store_if_grade(st, subject_code, subject_name, grade, token) ==
    IF IsGrade(grade) THEN store_subject(st, subject_code, subject_name, grade, token)
    ELSE skip_subject(st, token)

\* the name of the line, or the next line when the line holds none and the
\* next line is no subject line
result_name(st, idx, own_name) ==
    IF /\ own_name = <<>> \/ isdigit(own_name)
       /\ idx + 1 <= Len(st.lines)
       /\ idx + 1 \notin Range(st.subject_lines)
       /\ ~search(SubjectLineRe, st.lines[idx + 1]).ok
    THEN strip(st.lines[idx + 1]) ELSE own_name

result_line_grade(st, subject_code, subject_name, token) ==
    store_if_grade(st, subject_code, subject_name, plus_dropped(token_grade(token)), token)

result_line_match(st, idx, line, code_match) ==
    IF ~code_match.ok THEN skip_subject(st, None)
    ELSE result_line_grade(
             st, strip(group(ResultCodeRe, code_match, line, 1)),
             result_name(st, idx,
                         strip(cut_name_tail(
                             strip(SubSeq(line, match_end(code_match), Len(line)))))),
             line_token(MarksGradeRe, st.lines, idx))

\* one iteration of the loop over subject_lines, idx being the line's place
result_line(st, idx) ==
    result_line_match(st, idx, st.lines[idx], search(ResultCodeRe, st.lines[idx]))

GradesWindow == 20

\* one line below a GRADES line
grades_line(st, j) ==
    LET grade_line == st.lines[j]
        full_match == search(FullRe, grade_line)
        token == group(FullRe, full_match, grade_line, 3)
    IN IF ~full_match.ok THEN skip_subject(st, None)
       ELSE IF IsGrade(grade_of(token))
       THEN store_subject(st, strip(group(FullRe, full_match, grade_line, 1)),
                          strip(group(FullRe, full_match, grade_line, 2)), grade_of(token), token)
       ELSE skip_subject(st, token)

\* one line under one special-subject pattern
special_result_line(st, sp, line) ==
    LET p == SpecialResultRe(sp)
        special_match == search(p, line)
        token == grade_token(TrailingGradeRe, line)
    IN IF ~special_match.ok THEN skip_subject(st, None)
       ELSE IF token # None /\ IsGrade(grade_of(token))
       THEN store_subject(st, strip(group(p, special_match, line, 1)), special_name(sp),
                          grade_of(token), token)
       ELSE skip_subject(st, token)

keyword_line_grade(st, subject_code, keyword, token) ==
    store_if_grade(st, subject_code, keyword, token_grade(token), token)

keyword_line_match(st, i, line, keyword, code_match) ==
    IF ~Contains(line, keyword) \/ ~code_match.ok THEN skip_subject(st, None)
    ELSE keyword_line_grade(st, strip(group(ResultCodeRe, code_match, line, 1)), keyword,
                            line_token(TrailingGradeRe, st.lines, i))

\* one keyword on line i
keyword_line(st, i, keyword) ==
    keyword_line_match(st, i, st.lines[i], keyword, search(ResultCodeRe, st.lines[i]))

\* the places of the lines that hold a subject code, in order
subject_line_places(lines) ==
    LET hits == {i \in DOMAIN lines : search(SubjectLineRe, lines[i]).ok}
    IN [n \in 1..Cardinality(hits) |->
          CHOOSE i \in hits : Cardinality({h \in hits : h < i}) = n - 1]

ResultStart(lines) ==
    [lines |-> lines, subjects |-> <<>>, subject_lines |-> <<>>, n |-> 1, i |-> 1, j |-> 0,
     p |-> 1, k |-> 1, grade_match |-> None, stored |-> None]

\* for i, line in enumerate(lines): subject_lines.append((i, line))
ResultScan ==
    /\ pc = "prd_scan"
    /\ frame' = [frame EXCEPT !.prd.subject_lines = subject_line_places(frame.prd.lines)]
    /\ pc' = "prd_lines"

\* for i, (line_idx, line) in enumerate(subject_lines)
ResultLine ==
    /\ pc = "prd_lines"
    /\ frame.prd.n <= Len(frame.prd.subject_lines)
    /\ frame' = [frame EXCEPT
                   !.prd = [result_line(@, @.subject_lines[@.n]) EXCEPT !.n = @ + 1]]
    /\ UNCHANGED pc

ResultLinesDone ==
    /\ pc = "prd_lines"
    /\ frame.prd.n > Len(frame.prd.subject_lines)
    /\ frame' = [frame EXCEPT !.prd = [skip_subject(@, None) EXCEPT !.i = 1, !.j = 0]]
    /\ pc' = "prd_grades"

\* for i, line in enumerate(lines): if "GRADES" in line and i < len(lines) - 1:
\* for j in range(i+1, min(i+20, len(lines)))
ResultGrades ==
    /\ pc = "prd_grades"
    /\ frame.prd.i <= Len(frame.prd.lines)
    /\ frame' = [frame EXCEPT !.prd =
          IF @.j = 0
          THEN IF Contains(@.lines[@.i], S("GRADES")) /\ @.i < Len(@.lines)
               THEN [skip_subject(@, None) EXCEPT !.j = frame.prd.i + 1]
               ELSE [skip_subject(@, None) EXCEPT !.i = @ + 1]
          ELSE IF @.j <= Min({@.i + GradesWindow - 1, Len(@.lines)})
               THEN [grades_line(@, @.j) EXCEPT !.j = @ + 1]
               ELSE [skip_subject(@, None) EXCEPT !.i = @ + 1, !.j = 0]]
    /\ UNCHANGED pc

ResultGradesDone ==
    /\ pc = "prd_grades"
    /\ frame.prd.i > Len(frame.prd.lines)
    /\ frame' = [frame EXCEPT !.prd = [skip_subject(@, None) EXCEPT !.i = 1, !.p = 1]]
    /\ pc' = "prd_special"

\* for pattern, name in special_subject_patterns: for line in lines
ResultSpecial ==
    /\ pc = "prd_special"
    /\ frame.prd.p <= Len(special_result_subjects)
    /\ frame' = [frame EXCEPT !.prd =
          IF @.i > Len(@.lines) THEN [skip_subject(@, None) EXCEPT !.p = @ + 1, !.i = 1]
          ELSE [special_result_line(@, special_result_subjects[@.p], @.lines[@.i])
                   EXCEPT !.i = @ + 1]]
    /\ UNCHANGED pc

ResultSpecialDone ==
    /\ pc = "prd_special"
    /\ frame.prd.p > Len(special_result_subjects)
    /\ frame' = [frame EXCEPT !.prd = [skip_subject(@, None) EXCEPT !.i = 1, !.k = 1]]
    /\ pc' = "prd_keywords"

\* for i, line in enumerate(lines): for keyword in [...]
ResultKeyword ==
    /\ pc = "prd_keywords"
    /\ frame.prd.i <= Len(frame.prd.lines)
    /\ frame' = [frame EXCEPT !.prd =
          IF @.k > Len(result_keywords) THEN [skip_subject(@, None) EXCEPT !.i = @ + 1, !.k = 1]
          ELSE [keyword_line(@, @.i, result_keywords[@.k]) EXCEPT !.k = @ + 1]]
    /\ UNCHANGED pc

ResultKeywordsDone ==
    /\ pc = "prd_keywords"
    /\ frame.prd.i > Len(frame.prd.lines)
    /\ frame' = [frame EXCEPT !.prd = skip_subject(@, None)]
    /\ pc' = "prd_return"

parse_result_data ==
    \/ ResultScan \/ ResultLine \/ ResultLinesDone \/ ResultGrades \/ ResultGradesDone
    \/ ResultSpecial \/ ResultSpecialDone \/ ResultKeyword \/ ResultKeywordsDone

-----------------------------------------------------------------------------
(* Matcher *)

\* the length of the longest common run that starts at a[i] and b[j] and
\* stays below ahi and bhi
run_length(a, b, i, j, ahi, bhi) ==
    Max({k \in 0..Min({ahi - i, bhi - j}) : \A h \in 0..(k - 1) : a[i + h] = b[j + h]})

\* SequenceMatcher.find_longest_match over a[alo..ahi-1] and b[blo..bhi-1], no
\* junk (autojunk needs 200 characters): the longest matching block, of those
\* the one that starts earliest in a, of those the one that starts earliest in b
find_longest_match(a, b, alo, ahi, blo, bhi) ==
    LET starts == {p \in (alo..(ahi - 1)) \X (blo..(bhi - 1)) : a[p[1]] = b[p[2]]}
        runs == {<<p[1], p[2], run_length(a, b, p[1], p[2], ahi, bhi)>> : p \in starts}
        size == Max({0} \cup {r[3] : r \in runs})
        i == Min({r[1] : r \in {q \in runs : q[3] = size}})
        j == Min({r[2] : r \in {q \in runs : q[3] = size /\ q[1] = i}})
    IN IF size = 0 THEN [i |-> alo, j |-> blo, size |-> 0]
       ELSE [i |-> i, j |-> j, size |-> size]

\* SequenceMatcher.get_matching_blocks: the size of the longest block m plus
\* the sizes of the blocks found to its left and to its right
RECURSIVE matching_size(_, _, _, _, _, _)
blocks_around(a, b, alo, ahi, blo, bhi, m) ==
    IF m.size = 0 THEN 0
    ELSE m.size
         + (IF alo < m.i /\ blo < m.j
            THEN matching_size(a, b, alo, m.i, blo, m.j) ELSE 0)
         + (IF m.i + m.size < ahi /\ m.j + m.size < bhi
            THEN matching_size(a, b, m.i + m.size, ahi, m.j + m.size, bhi) ELSE 0)

matching_size(a, b, alo, ahi, blo, bhi) ==
    blocks_around(a, b, alo, ahi, blo, bhi, find_longest_match(a, b, alo, ahi, blo, bhi))

\* SequenceMatcher(None, a, b).ratio() = 2.0 * matches / (len(a) + len(b)), kept
\* as numerator and denominator; 1.0 for two empty strings
ratio(a, b) ==
    IF Len(a) + Len(b) = 0 THEN [num |-> 1, den |-> 1]
    ELSE [num |-> 2 * matching_size(a, b, 1, Len(a) + 1, 1, Len(b) + 1),
          den |-> Len(a) + Len(b)]

\* r > q for two ratios
greater(r, q) == r.num * q.den > q.num * r.den

\* similarity > 0.5
above_half(r) == 2 * r.num > r.den

special_keywords ==
    <<[k |-> S("BFE"), v |-> S("Biology for Engineers")],
      [k |-> S("FBE"), v |-> S("Biology for Engineers")],
      [k |-> S("ENV"), v |-> S("Environmental Studies")],
      [k |-> S("CPH"), v |-> S("Constitution of India")],
      [k |-> S("MAT"), v |-> S("Mathematics")]>>

\* for code in course_credits: if <test>: return code, hits being the places
\* of the codes that pass the test
first_code(course_credits, hits) ==
    IF hits = {} THEN None ELSE course_credits[Min(hits)].k

\* if normalized_code in course_credits
match_direct(normalized_code, course_credits) ==
    IF Has(course_credits, normalized_code) THEN normalized_code ELSE None

\* the code subject_name_map holds for the name, when course_credits has it
match_name(name, course_credits, subject_name_map) ==
    LET subject_name == remove_spaces(lower(name))
    IN IF /\ Has(subject_name_map, subject_name)
          /\ Has(course_credits, Get(subject_name_map, subject_name))
       THEN Get(subject_name_map, subject_name) ELSE None

\* for keyword, subject in special_keywords.items(): the first keyword that
\* is in the code or whose subject is in the name, and that a course code holds
match_special(subject_code, name, course_credits) ==
    LET holder(n) == first_code(course_credits,
                                {i \in DOMAIN course_credits :
                                   Contains(course_credits[i].k, special_keywords[n].k)})
        hits == {n \in DOMAIN special_keywords :
                   /\ \/ Contains(subject_code, special_keywords[n].k)
                      \/ Contains(name, special_keywords[n].v)
                   /\ holder(n) # None}
    IN IF hits = {} THEN None ELSE holder(Min(hits))

\* the first course code of the same year and semester whose name holds the
\* first word of the result's name, the name being longer than 3
match_year_sem(parts, name, course_credits, subject_names) ==
    first_code(course_credits,
               {i \in DOMAIN course_credits :
                  LET code == course_credits[i].k
                      parts2 == extract_core_code_parts(code)
                  IN /\ parts2.year = parts.year /\ parts2.sem = parts.sem
                     /\ name # <<>> /\ Len(name) > 3
                     /\ Contains(lower(GetOr(subject_names, code, <<>>)),
                                 first_token(lower(name)))})

\* core_pattern = f"{year}{sem}{type_code[:1]}"
match_core_pattern(parts, course_credits) ==
    LET core_pattern == parts.year \o parts.sem \o SubSeq(parts.type_code, 1, 1)
    IN first_code(course_credits,
                  {i \in DOMAIN course_credits : Contains(course_credits[i].k, core_pattern)})

\* a fuzzy stage that returns the most similar holder from 0.5 on
match_fuzzy_from_half(sem, normalized_code, course_credits) ==
    LET scored == {[i |-> i, r |-> ratio(normalized_code, course_credits[i].k)] :
                     i \in {n \in DOMAIN course_credits : Contains(course_credits[n].k, sem)}}
        best == {x \in scored : /\ x.r.num > 0
                                /\ \A y \in scored : ~greater(y.r, x.r)}
        first == CHOOSE x \in best : \A y \in best : x.i <= y.i
    IN IF best # {} /\ 2 * first.r.num >= first.r.den THEN course_credits[first.i].k ELSE None

\* the first course code of the highest similarity among those that hold the
\* semester, when that similarity is above 0 (the loop starts from 0 and only
\* a strictly higher similarity replaces best_match) and above 0.5
match_fuzzy(sem, normalized_code, course_credits) ==
    LET scored == {[i |-> i, r |-> ratio(normalized_code, course_credits[i].k)] :
                     i \in {n \in DOMAIN course_credits : Contains(course_credits[n].k, sem)}}
        best == {x \in scored : /\ x.r.num > 0
                                /\ \A y \in scored : ~greater(y.r, x.r)}
        first == CHOOSE x \in best : \A y \in best : x.i <= y.i
    IN IF best # {} /\ above_half(first.r) THEN course_credits[first.i].k ELSE None

\* a last resort that unpacks the parts in the wrong order and compares the
\* year of the course code with the semester
match_semester_year(sem, course_credits) ==
    first_code(course_credits,
               {i \in DOMAIN course_credits :
                  extract_core_code_parts(course_credits[i].k).year = sem})

\* the first course code of the same semester
match_semester(sem, course_credits) ==
    first_code(course_credits,
               {i \in DOMAIN course_credits :
                  extract_core_code_parts(course_credits[i].k).sem = sem})
\* the blocks of find_matching_code in the order the function runs them
fmc_order_semester_first ==
    <<"fmc_direct", "fmc_name", "fmc_parts", "fmc_special", "fmc_year_sem", "fmc_core",
      "fmc_sem", "fmc_fuzzy", "fmc_none">>

fmc_order ==
    <<"fmc_direct", "fmc_name", "fmc_parts", "fmc_special", "fmc_year_sem", "fmc_core",
      "fmc_fuzzy", "fmc_sem", "fmc_none">>

\* the block that follows block at
fmc_after(at) == fmc_order[IndexIn(fmc_order, at) + 1]

NoParts == [year |-> None, dept |-> None, sem |-> None, type_code |-> None]

\* the locals of find_matching_code at its call
FindStart(subject_code, result_subject_data) ==
    [subject_code |-> subject_code, result_subject_data |-> result_subject_data,
     normalized_code |-> None, parts |-> NoParts, ret |-> None]

\* the end of a block: return the code it found, or fall through to the next
fall_through(at, fm, found) ==
    IF found # None
    THEN /\ frame' = [frame EXCEPT !.fmc = [fm EXCEPT !.ret = found]]
         /\ pc' = "fmc_return"
    ELSE /\ frame' = [frame EXCEPT !.fmc = fm]
         /\ pc' = fmc_after(at)

FindDirect ==
    /\ pc = "fmc_direct"
    /\ LET normalized_code == normalize_subject_code(frame.fmc.subject_code)
       IN fall_through("fmc_direct", [frame.fmc EXCEPT !.normalized_code = normalized_code],
                       match_direct(normalized_code, frame.pcd.course_credits))

FindName ==
    /\ pc = "fmc_name"
    /\ fall_through("fmc_name", frame.fmc,
                    match_name(frame.fmc.result_subject_data.name, frame.pcd.course_credits,
                               frame.pcd.subject_name_map))

\* if not all([year, dept, sem, type_code]): return None
FindParts ==
    /\ pc = "fmc_parts"
    /\ LET parts == extract_core_code_parts(frame.fmc.normalized_code)
       IN /\ frame' = [frame EXCEPT !.fmc.parts = parts]
          /\ pc' = IF parts.year = None THEN "fmc_return" ELSE fmc_after("fmc_parts")

FindSpecial ==
    /\ pc = "fmc_special"
    /\ fall_through("fmc_special", frame.fmc,
                    match_special(frame.fmc.subject_code, frame.fmc.result_subject_data.name,
                                  frame.pcd.course_credits))

FindYearSem ==
    /\ pc = "fmc_year_sem"
    /\ fall_through("fmc_year_sem", frame.fmc,
                    match_year_sem(frame.fmc.parts, frame.fmc.result_subject_data.name,
                                   frame.pcd.course_credits, frame.pcd.subject_names))

FindCorePattern ==
    /\ pc = "fmc_core"
    /\ fall_through("fmc_core", frame.fmc,
                    match_core_pattern(frame.fmc.parts, frame.pcd.course_credits))

FindFuzzy ==
    /\ pc = "fmc_fuzzy"
    /\ fall_through("fmc_fuzzy", frame.fmc,
                    match_fuzzy(frame.fmc.parts.sem, frame.fmc.normalized_code,
                                frame.pcd.course_credits))

FindSemester ==
    /\ pc = "fmc_sem"
    /\ fall_through("fmc_sem", frame.fmc,
                    match_semester(frame.fmc.parts.sem, frame.pcd.course_credits))

\* return None
FindNone ==
    /\ pc = "fmc_none"
    /\ pc' = "fmc_return"
    /\ UNCHANGED frame

find_matching_code ==
    \/ FindDirect \/ FindName \/ FindParts \/ FindSpecial \/ FindYearSem
    \/ FindCorePattern \/ FindFuzzy \/ FindSemester \/ FindNone

-----------------------------------------------------------------------------
(* Combine *)

\* GRADE_POINTS.get(grade, 0)
grade_point_of(grade) == GetOr(GRADE_POINTS, grade, 0)

\* a combined record whose weighted point leaves the credit out
combined_record_unweighted(name, credit, grade) ==
    [name |-> name, credit |-> credit, grade |-> grade,
     grade_point |-> grade_point_of(grade),
     weighted_point |-> grade_point_of(grade)]

\* the combined record of a subject; credit and weighted_point in tenths
combined_record(name, credit, grade) ==
    [name |-> name, credit |-> credit, grade |-> grade,
     grade_point |-> grade_point_of(grade),
     weighted_point |-> credit * grade_point_of(grade)]

\* name.isdigit() or not name or len(name) < 3
poor_name(name) == isdigit(name) \/ name = <<>> \/ Len(name) < 3

\* the end of one iteration of the loop over subjects: the subject is combined
\* under its code when a credit was found (credit is not None) and is kept as
\* unmatched otherwise
combine_subject(cd, ix, subject_code, subject_data, found, credit, found_name) ==
    LET normalized_code == subject_data.normalized_code
        name == IF Has(ix.subject_names, subject_code) /\ poor_name(found_name)
                THEN Get(ix.subject_names, subject_code)
                ELSE IF Has(ix.subject_names, normalized_code) /\ poor_name(found_name)
                THEN Get(ix.subject_names, normalized_code)
                ELSE found_name
    IN IF found
       THEN [cd EXCEPT !.combined_data =
                          Put(@, subject_code, combined_record(name, credit, subject_data.grade)),
                       !.s = @ + 1]
       ELSE [cd EXCEPT !.unmatched_subjects =
                          Append(@, [code |-> subject_code, name |-> found_name,
                                     grade |-> subject_data.grade]),
                       !.s = @ + 1]

unmatched_keywords ==
    <<[keyword |-> S("Biology"), pattern |-> <<S("BFE"), S("FBE")>>],
      [keyword |-> S("Environment"), pattern |-> <<S("ENV")>>],
      [keyword |-> S("Constitution"), pattern |-> <<S("CPH")>>],
      [keyword |-> S("Math"), pattern |-> <<S("MAT")>>]>>

\* the record written for an unmatched subject from the course code found
second_chance(ix, subj, code) ==
    combined_record(GetOr(ix.subject_names, code, subj.name), Get(ix.course_credits, code),
                    subj.grade)

\* the first keyword that is in the name and that a course code answers:
\* matching_codes[0], or None
unmatched_by_keyword(ix, subj) ==
    LET codes(n) == {i \in DOMAIN ix.course_credits :
                       \E q \in DOMAIN unmatched_keywords[n].pattern :
                          Contains(ix.course_credits[i].k, unmatched_keywords[n].pattern[q])}
        hits == {n \in DOMAIN unmatched_keywords :
                   Contains(subj.name, unmatched_keywords[n].keyword) /\ codes(n) # {}}
    IN IF hits = {} THEN None ELSE ix.course_credits[Min(codes(Min(hits)))].k

\* the first course code of the same semester and of the same type or first
\* type letter, or None
unmatched_by_semester(ix, subj) ==
    LET parts == extract_core_code_parts(subj.code)
    IN IF parts.sem = None THEN None
       ELSE first_code(ix.course_credits,
                       {i \in DOMAIN ix.course_credits :
                          LET parts2 == extract_core_code_parts(ix.course_credits[i].k)
                          IN /\ parts2.sem = parts.sem
                             /\ \/ parts.type_code = parts2.type_code
                                \/ parts.type_code[1] = parts2.type_code[1]})

\* combined_data[subj["code"]] = {...} when a course code was found
write_second_chance(cd, ix, subj, code) ==
    IF code = None THEN cd
    ELSE [cd EXCEPT !.combined_data = Put(@, subj.code, second_chance(ix, subj, code))]

\* one iteration of the loop over unmatched_subjects
combine_unmatched(cd, ix, subj) ==
    [write_second_chance(write_second_chance(cd, ix, subj, unmatched_by_keyword(ix, subj)),
                         ix, subj, unmatched_by_semester(ix, subj))
        EXCEPT !.u = @ + 1]

CombineStart(subjects) ==
    [subjects |-> subjects, s |-> 1, combined_data |-> <<>>, unmatched_subjects |-> <<>>,
     u |-> 1]

\* for subject_code, subject_data in subjects.items(): the code or its
\* normalized form is in course_credits, or find_matching_code is called
CombineSubject ==
    /\ pc = "cd_subjects"
    /\ frame.cd.s <= Len(frame.cd.subjects)
    /\ LET subject_code == frame.cd.subjects[frame.cd.s].k
           subject_data == frame.cd.subjects[frame.cd.s].v
           course_credits == frame.pcd.course_credits
       IN IF Has(course_credits, subject_code)
          THEN /\ frame' = [frame EXCEPT !.cd =
                              combine_subject(@, frame.pcd, subject_code, subject_data, TRUE,
                                              Get(course_credits, subject_code),
                                              subject_data.name)]
               /\ UNCHANGED pc
          ELSE IF Has(course_credits, subject_data.normalized_code)
          THEN /\ frame' = [frame EXCEPT !.cd =
                              combine_subject(@, frame.pcd, subject_code, subject_data, TRUE,
                                              Get(course_credits, subject_data.normalized_code),
                                              subject_data.name)]
               /\ UNCHANGED pc
          ELSE /\ frame' = [frame EXCEPT !.fmc = FindStart(subject_code, subject_data)]
               /\ pc' = "fmc_direct"

\* matching_code = find_matching_code(...); if matching_code: ...
CombineMatched ==
    /\ pc = "fmc_return"
    /\ frame.entry # "find_matching_code"
    /\ LET matching_code == frame.fmc.ret
           subject_data == frame.fmc.result_subject_data
       IN frame' = [frame EXCEPT !.cd =
             combine_subject(@, frame.pcd, frame.fmc.subject_code, subject_data,
                             matching_code # None,
                             IF matching_code # None
                             THEN Get(frame.pcd.course_credits, matching_code) ELSE 0,
                             IF matching_code # None /\ Has(frame.pcd.subject_names, matching_code)
                             THEN Get(frame.pcd.subject_names, matching_code)
                             ELSE subject_data.name)]
    /\ pc' = "cd_subjects"

CombineSubjectsDone ==
    /\ pc = "cd_subjects"
    /\ frame.cd.s > Len(frame.cd.subjects)
    /\ frame' = [frame EXCEPT !.cd.u = 1]
    /\ pc' = "cd_unmatched"

\* for subj in unmatched_subjects
CombineUnmatched ==
    /\ pc = "cd_unmatched"
    /\ frame.cd.u <= Len(frame.cd.unmatched_subjects)
    /\ frame' = [frame EXCEPT !.cd =
                   combine_unmatched(@, frame.pcd, @.unmatched_subjects[@.u])]
    /\ UNCHANGED pc

CombineDone ==
    /\ pc = "cd_unmatched"
    /\ frame.cd.u > Len(frame.cd.unmatched_subjects)
    /\ pc' = "cd_return"
    /\ UNCHANGED frame

combine_data ==
    \/ CombineSubject \/ CombineMatched \/ CombineSubjectsDone \/ CombineUnmatched
    \/ CombineDone

-----------------------------------------------------------------------------
(* Aggregation.  Credits and points are kept in tenths (credits are         *)
(* multiples of 0.5, which a float holds exactly), SGPA and CGPA in         *)
(* hundredths.                                                              *)

\* 2^k % m
RECURSIVE pow2mod(_, _)
pow2mod(k, m) ==
    IF k = 0 THEN 1 % m
    ELSE (((pow2mod(k \div 2, m) * pow2mod(k \div 2, m)) % m)
          * (IF (k % 2) = 1 THEN 2 ELSE 1)) % m

\* 2^k for the few k used to place a quotient between two powers of two
pow2(k) == CASE k = 0 -> 1 [] k = 1 -> 2 [] k = 2 -> 4 [] k = 3 -> 8 [] k = 4 -> 16
             [] k = 5 -> 32 [] k = 6 -> 64 [] k = 7 -> 128 [] k = 8 -> 256 [] k = 9 -> 512
             [] k = 10 -> 1024

\* floor(log2(n / d)) for 1/1024 <= n / d < 1024
floor_log2(n, d) ==
    Max({e \in -10..10 : IF e >= 0 THEN pow2(e) * d <= n ELSE d <= n * pow2(-e)})

\* the float n / d against the quotient: the division is rounded to 53
\* significant bits, so what is left of n * 2^k / d after its integer part
\* (k = 52 - floor(log2(n / d))) decides the direction, a half going to the
\* even neighbour; 0 when the float is the quotient, 1 when above, -1 when below
float_error(n, d) ==
    LET k == 52 - floor_log2(n, d)
        r == ((n % d) * pow2mod(k, d)) % d
        odd == (((n % (2 * d)) * pow2mod(k, 2 * d)) % (2 * d)) >= d
    IN IF r = 0 THEN 0
       ELSE IF 2 * r > d THEN 1
       ELSE IF 2 * r < d THEN -1
       ELSE IF odd THEN 1 ELSE -1

\* round(n / d, 2) in hundredths, n >= 0, d > 0: the hundredth nearest to the
\* float n / d, of two equally near ones the even one
round2(n, d) ==
    LET h == (100 * n) \div d
        rest == (100 * n) % d
    IN IF 2 * rest < d THEN h
       ELSE IF 2 * rest > d THEN h + 1
       ELSE CASE float_error(n, d) = 1 -> h + 1
              [] float_error(n, d) = -1 -> h
              [] OTHER -> IF h % 2 = 0 THEN h ELSE h + 1

RECURSIVE sum(_)
sum(seq) == IF seq = <<>> THEN 0 ELSE Head(seq) + sum(Tail(seq))

\* the places of the subjects calculate_sgpa counts, in order
counted(subjects) ==
    LET hits == {i \in DOMAIN subjects :
                   "credit" \in DOMAIN subjects[i].v /\ subjects[i].v.credit # 0}
    IN [n \in 1..Cardinality(hits) |->
          CHOOSE i \in hits : Cardinality({h \in hits : h < i}) = n - 1]

\* a calculate_sgpa that truncates the quotient to 2 decimals
calculate_sgpa_truncated(subjects) ==
    LET at == counted(subjects)
        subject_points ==
            [n \in DOMAIN at |->
               LET data == subjects[at[n]].v
               IN [code |-> subjects[at[n]].k, name |-> data.name, credit |-> data.credit,
                   grade |-> data.grade, grade_point |-> grade_point_of(data.grade),
                   weighted_point |-> data.credit * grade_point_of(data.grade)]]
        total_credits == sum([n \in DOMAIN at |-> subject_points[n].credit])
        weighted_sum == sum([n \in DOMAIN at |-> subject_points[n].weighted_point])
    IN [sgpa |-> IF total_credits <= 0 THEN 0 ELSE (100 * weighted_sum) \div total_credits,
        subject_points |-> subject_points, total_credits |-> total_credits,
        total_points |-> weighted_sum]

calculate_sgpa(subjects) ==
    LET at == counted(subjects)
        subject_points ==
            [n \in DOMAIN at |->
               LET data == subjects[at[n]].v
               IN [code |-> subjects[at[n]].k, name |-> data.name, credit |-> data.credit,
                   grade |-> data.grade, grade_point |-> grade_point_of(data.grade),
                   weighted_point |-> data.credit * grade_point_of(data.grade)]]
        total_credits == sum([n \in DOMAIN at |-> subject_points[n].credit])
        weighted_sum == sum([n \in DOMAIN at |-> subject_points[n].weighted_point])
    IN [sgpa |-> IF total_credits <= 0 THEN 0 ELSE round2(weighted_sum, total_credits),
        subject_points |-> subject_points, total_credits |-> total_credits,
        total_points |-> weighted_sum]

\* round(cumulative_points / cumulative_credits, 2) if cumulative_credits > 0 else 0
cgpa_of(cumulative_points, cumulative_credits) ==
    IF cumulative_credits > 0 THEN round2(cumulative_points, cumulative_credits) ELSE 0

\* sorted(semester_data.items(), key=lambda x: x[0]): the places of the
\* semesters in ascending order of their ids
sorted_semesters(semester_data) ==
    [n \in DOMAIN semester_data |->
       CHOOSE i \in DOMAIN semester_data :
          Cardinality({j \in DOMAIN semester_data : semester_data[j].k < semester_data[i].k})
             = n - 1]

\* the places of the semesters in the order they were entered
entered_semesters(semester_data) == [n \in DOMAIN semester_data |-> n]

\* cumulative_credits and cumulative_points after the first n semesters of the order
cumulative_credits(semester_data, order, n) ==
    sum([m \in 1..n |-> semester_data[order[m]].v.total_credits])

cumulative_points(semester_data, order, n) ==
    sum([m \in 1..n |-> semester_data[order[m]].v.total_points])

\* the turn of the semester at place i in the order
turn_of(order, i) == CHOOSE n \in DOMAIN order : order[n] = i

\* semester_cgpa[sem_id] = cgpa, for the semester at place i
running_cgpa(semester_data, order, i) ==
    cgpa_of(cumulative_points(semester_data, order, turn_of(order, i)),
            cumulative_credits(semester_data, order, turn_of(order, i)))

\* semester_data[sem_id]["cgpa"] = cgpa
with_cgpa(data, cgpa) ==
    [field \in DOMAIN data \cup {"cgpa"} |-> IF field = "cgpa" THEN cgpa ELSE data[field]]

\* the loop over the semesters in the order, and the totals after it; the
\* summary's percentage is left out
cgpa_over(semester_data, order) ==
    [overall_cgpa |-> cgpa_of(cumulative_points(semester_data, order, Len(semester_data)),
                              cumulative_credits(semester_data, order, Len(semester_data))),
     semester_data |->
        [i \in DOMAIN semester_data |->
           [k |-> semester_data[i].k,
            v |-> with_cgpa(semester_data[i].v, running_cgpa(semester_data, order, i))]],
     summary |->
        [total_credits |-> cumulative_credits(semester_data, order, Len(semester_data)),
         total_points |-> cumulative_points(semester_data, order, Len(semester_data)),
         max_possible_points |->
            cumulative_credits(semester_data, order, Len(semester_data)) * 10]]

\* a calculate_cgpa that takes the semesters as they were entered
calculate_cgpa_unsorted(semester_data) ==
    cgpa_over(semester_data, entered_semesters(semester_data))

calculate_cgpa(semester_data) == cgpa_over(semester_data, sorted_semesters(semester_data))

-----------------------------------------------------------------------------
(* process_semester_files.  A document is the lines of its pages, or        *)
(* Unreadable when pdfplumber cannot open it or a page has no text.  The    *)
(* department and semester detection and the percentage fields feed only    *)
(* the report's labels and are left out.                                    *)

Unreadable == <<S("Unreadable")>>

\* text += page.extract_text() + "\n", split at "\n": the lines of the pages
\* and the empty line after the last "\n"
text_lines(document) == document \o << <<>> >>

\* generate_report: report["subjects"], keyed by the subject's name
report_subjects(subject_points) ==
    PutAll(<<>>, [n \in DOMAIN subject_points |->
                    LET point == subject_points[n]
                    IN [k |-> IF isdigit(point.name) \/ point.name = <<>>
                              THEN S("Subject ") \o point.code ELSE point.name,
                        v |-> [code |-> point.code, credit |-> point.credit,
                               grade |-> point.grade, grade_point |-> point.grade_point,
                               weighted_point |-> point.weighted_point]]])

ProcessStart(course_file, result_file, sem_id) ==
    [course_file |-> course_file, result_file |-> result_file, sem_id |-> sem_id,
     ret |-> None, error |-> None]

\* the callers' frame: the locals of the request handler, of
\* process_semester_files and of the functions it calls, and the files
\* pdfplumber was asked to open
Frame(entry, req, psf) ==
    [entry |-> entry, req |-> req, psf |-> psf, pdf_opened |-> <<>>,
     prd |-> ResultStart(<<>>), pcd |-> CourseStart(<<>>),
     fmc |-> FindStart(None, None), cd |-> CombineStart(<<>>)]

\* raise ValueError(message)
Raise(message) ==
    /\ frame' = [frame EXCEPT !.psf.error = message]
    /\ pc' = "psf_raise"

\* course_text = extract_text_from_pdf(course_file); result_text = ...
ProcessExtract ==
    /\ pc = "psf_extract"
    /\ IF frame.psf.course_file.document = Unreadable
       THEN /\ frame' = [frame EXCEPT
                           !.pdf_opened = Append(@, frame.psf.course_file.path),
                           !.psf.error = S("Unable to extract text from the provided PDF")]
            /\ pc' = "psf_raise"
       ELSE IF frame.psf.result_file.document = Unreadable
       THEN /\ frame' = [frame EXCEPT
                           !.pdf_opened = @ \o <<frame.psf.course_file.path,
                                                 frame.psf.result_file.path>>,
                           !.psf.error = S("Unable to extract text from the provided PDF")]
            /\ pc' = "psf_raise"
       ELSE /\ frame' = [frame EXCEPT
                           !.pdf_opened = @ \o <<frame.psf.course_file.path,
                                                 frame.psf.result_file.path>>,
                           !.prd = ResultStart(text_lines(frame.psf.result_file.document))]
            /\ pc' = "prd_scan"

\* a process_semester_files that parses the course text whatever the result
\* parser returned
ProcessResultUnchecked ==
    /\ pc = "prd_return"
    /\ frame.entry # "parse_result_data"
    /\ frame' = [frame EXCEPT
                   !.pcd = CourseStart(text_lines(frame.psf.course_file.document))]
    /\ pc' = "pcd_lines"

\* subjects_with_grades = parse_result_data(result_text)
ProcessResult ==
    /\ pc = "prd_return"
    /\ frame.entry # "parse_result_data"
    /\ IF frame.prd.subjects = <<>>
       THEN Raise(S("No subjects found in the results PDF. Please check the file."))
       ELSE /\ frame' = [frame EXCEPT
                           !.pcd = CourseStart(text_lines(frame.psf.course_file.document))]
            /\ pc' = "pcd_lines"

\* course_credits, subject_names, subject_name_map = parse_course_data(course_text)
ProcessCourses ==
    /\ pc = "pcd_return"
    /\ frame.entry \notin {"parse_course_data", "find_matching_code"}
    /\ IF frame.pcd.course_credits = <<>>
       THEN Raise(S("No course credits found in the course PDF. Please check the file."))
       ELSE /\ frame' = [frame EXCEPT !.cd = CombineStart(frame.prd.subjects)]
            /\ pc' = "cd_subjects"

\* combined_data = combine_data(...); calculate_sgpa; generate_report; return
ProcessCombined ==
    /\ pc = "cd_return"
    /\ IF frame.cd.combined_data = <<>>
       THEN Raise(S("Could not match any subjects between the two files. Please check that both files are for the same semester."))
       ELSE LET r == calculate_sgpa(frame.cd.combined_data)
            IN /\ frame' = [frame EXCEPT !.psf.ret =
                              [sgpa |-> r.sgpa, subjects |-> report_subjects(r.subject_points),
                               total_credits |-> r.total_credits,
                               total_points |-> r.total_points,
                               max_possible_points |-> r.total_credits * 10]]
               /\ pc' = "psf_return"

process_semester_files ==
    \/ ProcessExtract \/ parse_result_data \/ ProcessResult \/ parse_course_data
    \/ ProcessCourses \/ combine_data \/ find_matching_code \/ ProcessCombined

-----------------------------------------------------------------------------
(* The request handlers.  An upload is a file of the request, taken when    *)
(* the handler reads it: its filename and the document saved from it.  A    *)
(* response is the status and the error or the body; the percentage fields  *)
(* of the bodies are left out.                                              *)

\* '.' in filename and filename.rsplit('.', 1)[1].lower() in ALLOWED_EXTENSIONS
allowed_file(filename) ==
    /\ Contains(filename, S("."))
    /\ lower(SubSeq(filename, Max({i \in DOMAIN filename : filename[i] = "."}) + 1,
                    Len(filename))) = S("pdf")

SemesterLimit == 8

Missing == [present |-> FALSE, filename |-> <<>>, document |-> Unreadable]

\* the first check the two files fail, the course file before the result
\* file, as the words of its error, or None
file_error(course_pdf, result_pdf) ==
    IF course_pdf.filename = <<>> THEN S("No file selected")
    ELSE IF ~allowed_file(course_pdf.filename) THEN S("File must be a PDF")
    ELSE IF result_pdf.filename = <<>> THEN S("No file selected")
    ELSE IF ~allowed_file(result_pdf.filename) THEN S("File must be a PDF")
    ELSE None

\* f" for semester {sem_id}"
for_semester(sem_id) == S(" for semester ") \o <<DigitSeq[sem_id + 1]>>

RequestStart ==
    [semester_count |-> 0, sem_id |-> 0, semester_data |-> <<>>,
     response |-> [status |-> 0, error |-> None, body |-> None]]

\* return jsonify({"error": error}), status
Respond(status, error) ==
    /\ frame' = [frame EXCEPT !.req.response = [status |-> status, error |-> error,
                                                body |-> None]]
    /\ pc' = "req_return"

\* the uploads are saved and process_semester_files is called on the saved
\* files, with locals of its own
ProcessCall(course_pdf, result_pdf, sem_id) ==
    /\ frame' = [Frame(frame.entry, frame.req,
                       ProcessStart([path |-> <<"courses", sem_id>>,
                                     document |-> course_pdf.document],
                                    [path |-> <<"results", sem_id>>,
                                     document |-> result_pdf.document], sem_id))
                    EXCEPT !.pdf_opened = frame.pdf_opened]
    /\ pc' = "psf_extract"

\* upload_files up to the call of process_semester_files
UploadRequest(course_pdf, result_pdf) ==
    /\ pc = "upload_files"
    /\ IF ~course_pdf.present \/ ~result_pdf.present
       THEN Respond(400, S("Both course and result PDFs are required"))
       ELSE IF file_error(course_pdf, result_pdf) # None
       THEN Respond(400, file_error(course_pdf, result_pdf))
       ELSE ProcessCall(course_pdf, result_pdf, None)

\* return jsonify(response)
UploadProcessed ==
    /\ pc = "psf_return"
    /\ frame.entry = "upload_files"
    /\ frame' = [frame EXCEPT !.req.response =
          [status |-> 200, error |-> None,
           body |-> [sgpa |-> frame.psf.ret.sgpa, subjects |-> frame.psf.ret.subjects,
                     summary |-> [total_credits |-> frame.psf.ret.total_credits,
                                  total_points |-> frame.psf.ret.total_points,
                                  max_possible_points |->
                                     frame.psf.ret.max_possible_points]]]]
    /\ pc' = "req_return"

\* except ValueError as e: return jsonify({"error": str(e)}), 400
UploadFailed ==
    /\ pc = "psf_raise"
    /\ frame.entry = "upload_files"
    /\ Respond(400, frame.psf.error)

\* calculate_cgpa_route up to its loop; int() raises ValueError on a count
\* that is not a number, and the handler answers with the error's words
CgpaRequest(semester_count) ==
    /\ pc = "calculate_cgpa_route"
    /\ IF semester_count = None THEN Respond(400, S("Semester count is required"))
       ELSE IF ~isdigit(semester_count)
       THEN Respond(400, S("invalid literal for int() with base 10: '")
                           \o semester_count \o S("'"))
       ELSE IF int_of(semester_count) <= 0 \/ int_of(semester_count) > SemesterLimit
       THEN Respond(400, S("Invalid semester count. Must be between 1 and 8."))
       ELSE /\ frame' = [frame EXCEPT !.req.semester_count = int_of(semester_count),
                                      !.req.sem_id = 1]
            /\ pc' = "ccr_loop"

\* for sem_id in range(1, semester_count + 1): the semester's files are
\* checked, saved and processed
CgpaSemester(course_pdf, result_pdf) ==
    /\ pc = "ccr_loop"
    /\ frame.req.sem_id <= frame.req.semester_count
    /\ IF ~course_pdf.present \/ ~result_pdf.present
       THEN Respond(400, S("Files") \o for_semester(frame.req.sem_id) \o S(" are missing"))
       ELSE IF file_error(course_pdf, result_pdf) # None
       THEN Respond(400, file_error(course_pdf, result_pdf) \o for_semester(frame.req.sem_id))
       ELSE ProcessCall(course_pdf, result_pdf, frame.req.sem_id)

\* semester_data[sem_id] = sem_data
CgpaProcessed ==
    /\ pc = "psf_return"
    /\ frame.entry = "calculate_cgpa_route"
    /\ frame' = [frame EXCEPT
                   !.req.semester_data = Put(@, frame.req.sem_id, frame.psf.ret),
                   !.req.sem_id = @ + 1]
    /\ pc' = "ccr_loop"

\* a semester that is skipped when its processing fails
CgpaFailedSkipped ==
    /\ pc = "psf_raise"
    /\ frame.entry = "calculate_cgpa_route"
    /\ frame' = [frame EXCEPT !.req.sem_id = @ + 1]
    /\ pc' = "ccr_loop"

\* except Exception as e: return jsonify({"error": f"Failed to process
\* semester {sem_id}: {str(e)}"}), 400
CgpaFailed ==
    /\ pc = "psf_raise"
    /\ frame.entry = "calculate_cgpa_route"
    /\ Respond(400, S("Failed to process semester ") \o <<DigitSeq[frame.req.sem_id + 1]>>
                       \o S(": ") \o frame.psf.error)

\* overall_cgpa, updated_semesters, summary = calculate_cgpa(semester_data),
\* which writes each semester's cgpa into semester_data
CgpaDone ==
    /\ pc = "ccr_loop"
    /\ frame.req.sem_id > frame.req.semester_count
    /\ frame' = [frame EXCEPT
          !.req.semester_data = calculate_cgpa(@).semester_data,
          !.req.response =
             [status |-> 200, error |-> None,
              body |-> [cgpa |-> calculate_cgpa(frame.req.semester_data).overall_cgpa,
                        semesters |-> calculate_cgpa(frame.req.semester_data).semester_data,
                        summary |-> calculate_cgpa(frame.req.semester_data).summary]]]
    /\ pc' = "req_return"

-----------------------------------------------------------------------------
(* parse_course_data run over every course text of at most MaxCourseLines   *)
(* lines drawn from CoursePool                                              *)

MaxCourseLines == 3

CoursePool ==
    {S("Course Title"), S("Total Credits 20"), S("Course Title Total Credits"),
     S("1 FM 23CS3CSFM L 4 4"),
     S("2 DB 23IS3PCDB L 3 3"), S("2 OS 23CS3PCDB L 4 1.5"),
     S("Environmental Studies 22CV4HSENV 1")}

Texts(pool, n) == UNION {[1..k -> pool] : k \in 1..n}

InitCourse ==
    /\ pc = "pcd_lines"
    /\ frame \in {[entry |-> "parse_course_data", pcd |-> CourseStart(t)] :
                     t \in Texts(CoursePool, MaxCourseLines)}

SpecCourse == InitCourse /\ [][parse_course_data]_vars

\* the code with the letters of its department group replaced by alt_dept: the
\* same year, semester, type and suffix under another department
alias_of(code, alt_dept) ==
    LET m == search(CoreRe, code)
    IN SubSeq(code, 1, ItemStart(m, 2) - 1) \o alt_dept \o SubSeq(code, m.ends[2], Len(code))

HasParts(code) == extract_core_code_parts(code).year # None

\* C3: after parse_course_data, every code accepted from the course text whose
\* structural parts are extractable has, for every known department, an alias
\* with that department and the same year, semester, type and suffix, carrying
\* the same credit and the same name.
C3_AliasInvariant ==
    pc = "pcd_return" =>
        \A i \in DOMAIN frame.pcd.codes :
            LET code == frame.pcd.codes[i]
            IN HasParts(code) =>
                 \A j \in DOMAIN DEPARTMENT_CODES :
                    LET alias == alias_of(code, DEPARTMENT_CODES[j])
                    IN /\ Has(frame.pcd.course_credits, alias)
                       /\ Has(frame.pcd.subject_names, alias)
                       /\ Get(frame.pcd.course_credits, alias) = Get(frame.pcd.course_credits, code)
                       /\ Get(frame.pcd.subject_names, alias) = Get(frame.pcd.subject_names, code)

\* a line that holds one of the two headers, a line that holds Total Credits
IsHeader(line) == Contains(line, S("Course Details")) \/ Contains(line, S("Course Title"))

IsTotal(line) == Contains(line, S("Total Credits"))

\* the line the loop over the lines is at, the line the special scan is at
LineReached == frame.pcd.lines[frame.pcd.i]

\* the step wrote a key or a value of course_credits or subject_names
RecordAdded ==
    \/ frame'.pcd.course_credits # frame.pcd.course_credits
    \/ frame'.pcd.subject_names # frame.pcd.subject_names

\* a record written by the special scan comes from a line that its pattern matches
OnlySpecialOutside ==
    (pc = "pcd_special" /\ RecordAdded) =>
        search(SpecialCourseRe(special_subject_words[frame.pcd.p]), LineReached).ok

\* no header line lies before the line reached
BeforeFirstHeader == \A h \in 1..(frame.pcd.i - 1) : ~IsHeader(frame.pcd.lines[h])

\* a line containing Total Credits lies before the line reached, with no
\* header line after it
AfterTotalLine ==
    \E t \in 1..(frame.pcd.i - 1) :
       /\ IsTotal(frame.pcd.lines[t])
       /\ \A h \in (t + 1)..(frame.pcd.i - 1) : ~IsHeader(frame.pcd.lines[h])

\* the same, the line containing Total Credits being no header line itself
AfterClosingLine ==
    \E t \in 1..(frame.pcd.i - 1) :
       /\ IsTotal(frame.pcd.lines[t]) /\ ~IsHeader(frame.pcd.lines[t])
       /\ \A h \in (t + 1)..(frame.pcd.i - 1) : ~IsHeader(frame.pcd.lines[h])

\* C13 as claimed: in the loop over the lines every header line sets the flag
\* and every line containing Total Credits clears it; a line adds a record
\* only if the flag was set when it was reached and it is neither a header
\* line nor a Total Credits line, so a line before the first header or after
\* a line containing Total Credits (with no later header) adds nothing;
\* outside that loop only the special-subject patterns add records from lines
C13_TotalCreditsClears ==
    [][/\ (pc = "pcd_lines" /\ pc' = "pcd_lines") =>
            /\ IsHeader(LineReached) => frame'.pcd.in_course_section
            /\ IsTotal(LineReached) => ~frame'.pcd.in_course_section
            /\ (~IsHeader(LineReached) /\ ~IsTotal(LineReached)) =>
                  frame'.pcd.in_course_section = frame.pcd.in_course_section
            /\ RecordAdded => /\ frame.pcd.in_course_section
                              /\ ~IsHeader(LineReached) /\ ~IsTotal(LineReached)
            /\ (BeforeFirstHeader \/ AfterTotalLine) => ~RecordAdded
       /\ OnlySpecialOutside]_vars

\* C13 amended: in the loop over the lines every header line sets the flag,
\* also one that contains Total Credits as well; a line containing Total
\* Credits and no header clears it; any other line leaves it as it is; a line
\* adds a record only if the flag was set when it was reached and it is
\* neither a header line nor a Total Credits line, so a line before the first
\* header or after a line that contains Total Credits and no header (with no
\* later header) adds nothing; outside that loop only the special-subject
\* patterns add records from lines
C13_SectionStateMachine ==
    [][/\ (pc = "pcd_lines" /\ pc' = "pcd_lines") =>
            /\ IsHeader(LineReached) => frame'.pcd.in_course_section
            /\ (IsTotal(LineReached) /\ ~IsHeader(LineReached)) =>
                  ~frame'.pcd.in_course_section
            /\ (~IsHeader(LineReached) /\ ~IsTotal(LineReached)) =>
                  frame'.pcd.in_course_section = frame.pcd.in_course_section
            /\ RecordAdded => /\ frame.pcd.in_course_section
                              /\ ~IsHeader(LineReached) /\ ~IsTotal(LineReached)
            /\ (BeforeFirstHeader \/ AfterClosingLine) => ~RecordAdded
       /\ OnlySpecialOutside]_vars

\* a record line reached after the Total Credits line that closed the section:
\* the loop has passed it and course_credits is still empty
C13_Witness ==
    /\ pc = "pcd_lines"
    /\ frame.pcd.lines = <<S("Course Title"), S("Total Credits 20"), S("1 FM 23CS3CSFM L 4 4")>>
    /\ frame.pcd.i = 4
    /\ ~frame.pcd.in_course_section
    /\ frame.pcd.course_credits = <<>>

\* The two scans of the course text run to their end, before any alias is
\* written: the loops of CourseLine and CourseSpecial.
RECURSIVE course_lines_scan(_, _)
course_lines_scan(st, i) ==
    IF i > Len(st.lines) THEN st
    ELSE course_lines_scan(course_line(st, st.lines[i]), i + 1)

RECURSIVE course_special_scan(_, _, _)
course_special_scan(st, p, i) ==
    IF p > Len(special_subject_words) THEN st
    ELSE IF i > Len(st.lines) THEN course_special_scan(st, p + 1, 1)
    ELSE course_special_scan(special_course_line(st, special_subject_words[p], st.lines[i]),
                             p, i + 1)

\* course_credits and subject_names as parsed from the lines of the text
DirectlyParsed ==
    course_special_scan(course_lines_scan(CourseStart(frame.pcd.lines), 1), 1, 1)

\* the codes the alias loop runs over are the codes parsed from the lines
C16_ParsedCodes ==
    pc \in {"pcd_alias", "pcd_return"} => frame.pcd.codes = Keys(DirectlyParsed.course_credits)

\* C16: in what parse_course_data returns, every code accepted directly from
\* a line of the course text carries the credit and the name parsed from its
\* own line, also when the text holds another code that differs from it in
\* its department letters only
C16_AliasingKeepsParsed ==
    pc = "pcd_return" =>
        LET direct == DirectlyParsed
        IN \A i \in DOMAIN direct.course_credits :
              LET code == direct.course_credits[i].k
              IN /\ Get(frame.pcd.course_credits, code) = direct.course_credits[i].v
                 /\ GetOr(frame.pcd.subject_names, code, <<>>)
                       = GetOr(direct.subject_names, code, <<>>)

\* 23IS3PCDB (3 credits, DB) and 23CS3PCDB (1.5 credits, OS) both accepted:
\* the aliases of the first overwrite the record of the second
C16_ParsedCreditLost ==
    /\ pc = "pcd_return"
    /\ frame.pcd.lines = <<S("Course Title"), S("2 DB 23IS3PCDB L 3 3"), S("2 OS 23CS3PCDB L 4 1.5")>>
    /\ Get(DirectlyParsed.course_credits, S("23CS3PCDB")) = 15
    /\ Get(DirectlyParsed.subject_names, S("23CS3PCDB")) = S("OS")
    /\ Get(frame.pcd.course_credits, S("23CS3PCDB")) = 30
    /\ Get(frame.pcd.subject_names, S("23CS3PCDB")) = S("DB")

-----------------------------------------------------------------------------
(* normalize_subject_code applied once and then to its own result *)

MaxCodeLen == 6

NormAlphabet == {"2", "C", " ", "-"}

Strs(A, n) == UNION {[1..k -> A] : k \in 0..n}

InitNorm ==
    /\ pc = "normalize"
    /\ frame \in {[code |-> c, once |-> None, twice |-> None] :
                      c \in Strs(NormAlphabet, MaxCodeLen)}

NormalizeOnce ==
    /\ pc = "normalize"
    /\ frame' = [frame EXCEPT !.once = normalize_subject_code(frame.code)]
    /\ pc' = "renormalize"

NormalizeTwice ==
    /\ pc = "renormalize"
    /\ frame' = [frame EXCEPT !.twice = normalize_subject_code(frame.once)]
    /\ pc' = "normalized"

NextNorm == NormalizeOnce \/ NormalizeTwice

SpecNorm == InitNorm /\ [][NextNorm]_vars

\* C10: normalize_subject_code is idempotent: applied to its own result it
\* returns that result, whether or not the structural grammar matches.
C10_Idempotent == pc = "normalized" => frame.twice = frame.once

\* a code with spaces and a prefix before the structural match was normalized
\* to the match, and normalized again
C10_Witness ==
    /\ pc = "normalized"
    /\ search(NormRe, frame.once).ok
    /\ frame.once # frame.code
    /\ Contains(frame.code, S(" "))

-----------------------------------------------------------------------------
(* find_matching_code called with every record of MatchRecords on the       *)
(* course index parse_course_data builds from a course section of at most   *)
(* MaxMatchLines lines drawn from MatchPool                                 *)

MaxMatchLines == 2

MatchPool == {S("1 FM 23CS3CSFM L 4 4"), S("Environmental Studies 22CV4HSENV 1"),
              S("2 OD 21A233PQ L 4 4"), S("3 DB 23CS4PCDB L 3 3"),
              S("4 LG 21CS3WXYZQRS L 2 2")}

\* the (code, name) pairs of the result records matched
MatchRecords ==
    {<<S("23CS3CSFM"), S("Mgmt")>>, <<S("22XX5ABCD"), S("FM")>>,
     <<S("22XX4HSENV"), S("ES")>>, <<S("22XX4ABCD"), S("environmental law")>>,
     <<S("23XX3PCDB"), S("Data")>>, <<S("23XX3PCDQRS"), S("Data")>>}

InitMatch ==
    /\ pc = "pcd_lines"
    /\ frame \in {[entry |-> "find_matching_code",
                   pcd |-> CourseStart(<<S("Course Title")>> \o t)] :
                     t \in UNION {[1..k -> MatchPool] : k \in 0..MaxMatchLines}}

\* find_matching_code(subject_code, *parse_course_data(course_text), subject_data)
MatchCall ==
    /\ pc = "pcd_return"
    /\ frame.entry = "find_matching_code"
    /\ \E r \in MatchRecords :
         frame' = [entry |-> frame.entry, pcd |-> frame.pcd,
                   fmc |-> FindStart(r[1], [name |-> r[2], grade |-> S("A"),
                                            normalized_code |-> normalize_subject_code(r[1])])]
    /\ pc' = "fmc_direct"

NextMatch == parse_course_data \/ MatchCall \/ find_matching_code

SpecMatch == InitMatch /\ [][NextMatch]_vars

\* the arguments of the call in frame and the candidate of each of the seven
\* stages for them, in the order of the claim
MatchNormalized == normalize_subject_code(frame.fmc.subject_code)

MatchParts == extract_core_code_parts(MatchNormalized)

SameSemesterKey ==
    \E i \in DOMAIN frame.pcd.course_credits :
       extract_core_code_parts(frame.pcd.course_credits[i].k).sem = MatchParts.sem

StageCandidates ==
    LET name == frame.fmc.result_subject_data.name
        course_credits == frame.pcd.course_credits
    IN <<match_direct(MatchNormalized, course_credits),
         match_name(name, course_credits, frame.pcd.subject_name_map),
         match_special(frame.fmc.subject_code, name, course_credits),
         match_year_sem(MatchParts, name, course_credits, frame.pcd.subject_names),
         match_core_pattern(MatchParts, course_credits),
         match_fuzzy(MatchParts.sem, MatchNormalized, course_credits),
         match_semester(MatchParts.sem, course_credits)>>

\* the lowest-numbered stage that has a candidate among c, 0 when none has
first_stage(c) ==
    LET has == {n \in DOMAIN c : c[n] # None}
    IN IF has = {} THEN 0 ELSE Min(has)

\* C1 as stated: whenever the four parts of the normalized result code are
\* extractable and the course index is not empty, find_matching_code returns
\* a course code, never none
C1_NoneOnlyWithoutParts ==
    (pc = "fmc_return" /\ HasParts(MatchNormalized) /\ frame.pcd.course_credits # <<>>)
       => frame.fmc.ret # None

\* C1, amended: whenever the four parts of the normalized result code are
\* extractable and the course index holds a code whose extracted semester is
\* the semester of the result code, find_matching_code returns a course code
C1_SameSemesterFound ==
    (pc = "fmc_return" /\ HasParts(MatchNormalized) /\ SameSemesterKey)
       => (frame.fmc.ret # None /\ Has(frame.pcd.course_credits, frame.fmc.ret))

\* a call that only the last stage, the same semester, answers
C1_Witness ==
    /\ pc = "fmc_return" /\ HasParts(MatchNormalized) /\ SameSemesterKey
    /\ LET c == StageCandidates
       IN first_stage(c) = 7 /\ frame.fmc.ret = c[7]

\* C2: the code find_matching_code returns is the candidate of the
\* lowest-numbered stage that has one, in the order direct, name, special
\* keyword, year and semester with name token, core pattern, fuzzy, same
\* semester; it is none when no stage has a candidate
C2_FirstSuccessWins ==
    pc = "fmc_return" =>
       LET c == StageCandidates
           n == first_stage(c)
       IN frame.fmc.ret = IF n = 0 THEN None ELSE c[n]

\* the fuzzy stage answers although the same-semester stage has another candidate
C2_Witness ==
    /\ pc = "fmc_return"
    /\ LET c == StageCandidates
       IN /\ first_stage(c) = 6
          /\ c[7] # None /\ c[7] # c[6]
          /\ frame.fmc.ret = c[6]

\* the places of the course codes that hold the semester of the result code
SemesterHolders ==
    {i \in DOMAIN frame.pcd.course_credits :
        Contains(frame.pcd.course_credits[i].k, MatchParts.sem)}

\* the similarity of the normalized result code to each of these codes
Similarities ==
    [i \in SemesterHolders |-> ratio(MatchNormalized, frame.pcd.course_credits[i].k)]

\* the holders that no other holder is more similar than
MostSimilar(sim) == {i \in DOMAIN sim : \A j \in DOMAIN sim : ~greater(sim[j], sim[i])}

\* none of the stages 1 to 5 has a candidate
NoEarlierStage ==
    /\ match_direct(MatchNormalized, frame.pcd.course_credits) = None
    /\ match_name(frame.fmc.result_subject_data.name, frame.pcd.course_credits,
                  frame.pcd.subject_name_map) = None
    /\ match_special(frame.fmc.subject_code, frame.fmc.result_subject_data.name,
                     frame.pcd.course_credits) = None
    /\ match_year_sem(MatchParts, frame.fmc.result_subject_data.name,
                      frame.pcd.course_credits, frame.pcd.subject_names) = None
    /\ match_core_pattern(MatchParts, frame.pcd.course_credits) = None

\* what the semester-only stage gives
SemesterOnly == match_semester(MatchParts.sem, frame.pcd.course_credits)

\* C11: when stages 1 to 5 have no candidate, then if the highest similarity
\* ratio among the course codes that hold the result's semester exceeds 0.5,
\* find_matching_code returns a code of that highest ratio that holds the
\* semester, and if it is 0.5 or less (or no code holds the semester) it
\* returns what the semester-only stage gives
C11_FuzzyFallback ==
    (pc = "fmc_return" /\ HasParts(MatchNormalized) /\ NoEarlierStage) =>
        LET sim == Similarities
            top == MostSimilar(sim)
        IN IF \E i \in top : 2 * sim[i].num > sim[i].den
           THEN \E i \in top : frame.fmc.ret = frame.pcd.course_credits[i].k
           ELSE frame.fmc.ret = SemesterOnly

\* the fuzzy stage answered with a code that is not the first holder of the
\* semester (an earlier holder is less similar) and not the code of the
\* semester-only stage
C11_Witness ==
    /\ pc = "fmc_return" /\ HasParts(MatchNormalized) /\ NoEarlierStage
    /\ LET sim == Similarities
       IN \E i \in MostSimilar(sim) :
             /\ frame.fmc.ret = frame.pcd.course_credits[i].k
             /\ 2 * sim[i].num > sim[i].den
             /\ \E j \in DOMAIN sim : j < i /\ greater(sim[i], sim[j])
             /\ SemesterOnly \notin {None, frame.fmc.ret}

-----------------------------------------------------------------------------
(* parse_result_data run over every result text of at most MaxResultLines   *)
(* lines drawn from ResultPool                                              *)

MaxResultLines == 3

ResultPool ==
    {S("GRADES"), S("23CS3CSFM FM 60 55 50 A x"), S("o"),
     S("22CV4HSENV environmental studies B+"), S("22CV4HSENV The Environmental Studies"),
     S("Environmental Studies"), S("22CV4HSENV")}

InitResult ==
    /\ pc = "prd_scan"
    /\ frame \in {[entry |-> "parse_result_data", prd |-> ResultStart(t)] :
                    t \in Texts(ResultPool, MaxResultLines)}

SpecResult == InitResult /\ [][parse_result_data]_vars

\* Each of the four scans run on its own, from an empty mapping: the mapping
\* it leaves.  The loops are those of ResultLine, ResultGrades, ResultSpecial
\* and ResultKeyword.
RECURSIVE line_local_scan(_, _)
line_local_scan(st, n) ==
    IF n > Len(st.subject_lines) THEN st.subjects
    ELSE line_local_scan(result_line(st, st.subject_lines[n]), n + 1)

RECURSIVE structured_block_scan(_, _, _)
structured_block_scan(st, i, j) ==
    IF i > Len(st.lines) THEN st.subjects
    ELSE IF j = 0
    THEN IF Contains(st.lines[i], S("GRADES")) /\ i < Len(st.lines)
         THEN structured_block_scan(st, i, i + 1)
         ELSE structured_block_scan(st, i + 1, 0)
    ELSE IF j <= Min({i + GradesWindow - 1, Len(st.lines)})
    THEN structured_block_scan(grades_line(st, j), i, j + 1)
    ELSE structured_block_scan(st, i + 1, 0)

RECURSIVE special_subject_scan(_, _, _)
special_subject_scan(st, p, i) ==
    IF p > Len(special_result_subjects) THEN st.subjects
    ELSE IF i > Len(st.lines) THEN special_subject_scan(st, p + 1, 1)
    ELSE special_subject_scan(special_result_line(st, special_result_subjects[p], st.lines[i]),
                              p, i + 1)

RECURSIVE keyword_only_scan(_, _, _)
keyword_only_scan(st, i, k) ==
    IF i > Len(st.lines) THEN st.subjects
    ELSE IF k > Len(result_keywords) THEN keyword_only_scan(st, i + 1, 1)
    ELSE keyword_only_scan(keyword_line(st, i, result_keywords[k]), i, k + 1)

\* the mappings of the four scans of the text, in the order of the stages
StageMappings ==
    LET st == [ResultStart(frame.prd.lines) EXCEPT
                  !.subject_lines = subject_line_places(frame.prd.lines)]
    IN <<line_local_scan(st, 1), structured_block_scan(st, 1, 0),
         special_subject_scan(st, 1, 1), keyword_only_scan(st, 1, 1)>>

\* the position of each stage of parse_result_data, in the order of the claim
StageOrder == <<"prd_lines", "prd_grades", "prd_special", "prd_keywords">>

\* C14: the stages run in the order line-local, structured-block,
\* special-subject, keyword-only, and the mapping parse_result_data returns
\* holds exactly the codes that some stage produced a record for, each with
\* the record of the latest stage that produced one for it; in particular a
\* record of the structured-block scan replaces the line-local one
C14_LastWriteWins ==
    /\ frame.prd.stored # None => pc \in Range(StageOrder)
    /\ pc = "prd_return" =>
          LET stage == StageMappings
              subjects == frame.prd.subjects
          IN /\ \A n \in DOMAIN stage : \A j \in DOMAIN stage[n] : Has(subjects, stage[n][j].k)
             /\ \A i \in DOMAIN subjects :
                   LET code == subjects[i].k
                       producers == {n \in DOMAIN stage : Has(stage[n], code)}
                   IN /\ producers # {}
                      /\ subjects[i].v = Get(stage[Max(producers)], code)
                      /\ (Has(stage[1], code) /\ Has(stage[2], code) /\ Max(producers) = 2) =>
                            subjects[i].v = Get(stage[2], code)

\* the stages are entered in the order of the claim
C14_StagesInOrder ==
    [][pc' # pc =>
          <<pc, pc'>> \in {<<"prd_scan", "prd_lines">>, <<"prd_lines", "prd_grades">>,
                           <<"prd_grades", "prd_special">>, <<"prd_special", "prd_keywords">>,
                           <<"prd_keywords", "prd_return">>}]_vars

\* a line below GRADES with a short grade line after it: the line-local scan
\* reads the grade of the next line (O), the structured-block scan the grade
\* of the line itself (A), and the mapping returned holds A
C14_Witness ==
    /\ pc = "prd_return"
    /\ frame.prd.lines = <<S("GRADES"), S("23CS3CSFM FM 60 55 50 A x"), S("o")>>
    /\ Get(StageMappings[1], S("23CS3CSFM")).grade = S("O")
    /\ Get(StageMappings[2], S("23CS3CSFM")).grade = S("A")
    /\ Get(frame.prd.subjects, S("23CS3CSFM")).grade = S("A")

\* the lines a keyword on line i may draw on: the line and the next two
KeywordWindow(lines, i) == i..Min({i + 2, Len(lines)})

\* the subject codes in the window of line i
WindowCodes(lines, i) ==
    {strip(group(ResultCodeRe, search(ResultCodeRe, lines[j]), lines[j], 1)) :
        j \in {w \in KeywordWindow(lines, i) : search(ResultCodeRe, lines[w]).ok}}

\* the recognized grades in the window of line i: at the end of the line, or
\* at the end of a short line among the next two
WindowGrades(lines, i) ==
    {grade_of(grade_token(TrailingGradeRe, lines[j])) :
        j \in {w \in KeywordWindow(lines, i) :
                 /\ w = i \/ Len(lines[w]) < ShortLine
                 /\ grade_token(TrailingGradeRe, lines[w]) # None
                 /\ IsGrade(grade_of(grade_token(TrailingGradeRe, lines[w])))}}

\* C15: for a line that contains one of the three special-subject names,
\* whenever a subject code stands on that line or on one of the next two and
\* a recognized grade at the end of that line or on a short line among the
\* next two, the mapping returned holds under such a code a record named by
\* the keyword with such a grade
C15_KeywordWindow ==
    pc = "prd_return" =>
        \A i \in DOMAIN frame.prd.lines : \A k \in DOMAIN result_keywords :
            (/\ Contains(frame.prd.lines[i], result_keywords[k])
             /\ WindowCodes(frame.prd.lines, i) # {}
             /\ WindowGrades(frame.prd.lines, i) # {}) =>
                \E code \in WindowCodes(frame.prd.lines, i) :
                    /\ Has(frame.prd.subjects, code)
                    /\ Get(frame.prd.subjects, code).name = result_keywords[k]
                    /\ Get(frame.prd.subjects, code).grade \in WindowGrades(frame.prd.lines, i)

\* the name on one line, the code on the next, the grade on the third: the
\* keyword-only scan looks for the code on the line of the name alone and
\* stores nothing, and the record of the line-local scan is what is returned
C15_CodeOnNextLine ==
    /\ pc = "prd_return"
    /\ frame.prd.lines = <<S("Environmental Studies"), S("22CV4HSENV"), S("o")>>
    /\ keyword_only_scan(ResultStart(frame.prd.lines), 1, 1) = <<>>
    /\ Get(frame.prd.subjects, S("22CV4HSENV")).name = S("o")

\* what the code does hold: with the code on the line of the name, the record
\* named by the keyword is stored when the token at the end of that line, or
\* without one the token of the first short line among the next two that ends
\* in one, is a recognized grade
C15_CodeOnKeywordLine ==
    pc = "prd_return" =>
        \A i \in DOMAIN frame.prd.lines : \A k \in DOMAIN result_keywords :
            (/\ Contains(frame.prd.lines[i], result_keywords[k])
             /\ search(ResultCodeRe, frame.prd.lines[i]).ok
             /\ line_token(TrailingGradeRe, frame.prd.lines, i) # None
             /\ IsGrade(grade_of(line_token(TrailingGradeRe, frame.prd.lines, i)))) =>
                LET code == strip(group(ResultCodeRe, search(ResultCodeRe, frame.prd.lines[i]),
                                        frame.prd.lines[i], 1))
                IN /\ Has(frame.prd.subjects, code)
                   /\ Get(frame.prd.subjects, code).name = result_keywords[k]

-----------------------------------------------------------------------------
(* process_semester_files run on every pair of a course document and a      *)
(* result document of at most MaxDocumentLines lines                        *)

MaxDocumentLines == 2

CourseDocumentPool == {S("1 FM 23CS3CSFM L 4 4"), S("2 LG 21CS4WXYZ L 2 1.5")}

ResultDocumentPool == {S("23CS3CSFM FM 60 55 50 A"), S("23XX3PCDB DB 1 2 3 O+"),
                       S("23CS3PCOS OS 1 2 3 AB"), S("22CV4HSENV Environmental Studies B+")}

GradesBlockPool == {S("23CS3CSFM FM 60 55 50 A x"), S("23CS3PCDB DB 1 2 3 O+ x")}

\* the course section: its title and the lines below it
CourseDocuments ==
    {Unreadable} \cup
    {<<S("Course Title")>> \o t :
        t \in UNION {[1..k -> CourseDocumentPool] : k \in 0..(MaxDocumentLines - 1)}}

\* no page at all, result lines, or a GRADES line and the lines of its block
ResultDocuments ==
    {Unreadable, <<>>} \cup Texts(ResultDocumentPool, MaxDocumentLines)
    \cup {<<S("GRADES")>> \o t :
            t \in UNION {[1..k -> GradesBlockPool] : k \in 0..(MaxDocumentLines - 1)}}

Init ==
    /\ pc = "psf_extract"
    /\ frame \in {Frame("process_semester_files", None,
                        ProcessStart([path |-> "courses", document |-> c],
                                     [path |-> "results", document |-> r], None)) :
                    c \in CourseDocuments, r \in ResultDocuments}

Next == process_semester_files

Spec == Init /\ [][Next]_vars

-----------------------------------------------------------------------------
(* The grades of the records, from the result text to the combined data     *)

\* the lines of the result document of the run
ResultText == frame.psf.result_file.document

\* C8 as claimed: every record of parse_result_data has a grade that is a key
\* of GRADE_POINTS, a step that stored a record read a token that is itself a
\* key, and every combined record carries the grade point of its grade
C8_TokenIsKey ==
    /\ \A i \in DOMAIN frame.prd.subjects : frame.prd.subjects[i].v.grade \in Range(GradeKeys)
    /\ frame.prd.stored # None => frame.prd.grade_match \in Range(GradeKeys)
    /\ \A i \in DOMAIN frame.cd.combined_data :
          LET record == frame.cd.combined_data[i].v
          IN /\ record.grade \in Range(GradeKeys)
             /\ record.grade_point = Get(GRADE_POINTS, record.grade)

\* C8 amended: every record of parse_result_data has a grade that is a key of
\* GRADE_POINTS; a step of any of the four scans stores a record only when
\* the token it read, upper-cased and without blanks (and, in the line-local
\* scan, O+ read as O), is a key, and that key is the grade it stores; every
\* combined record carries the grade point the table gives its grade
C8_GradeIsKey ==
    /\ \A i \in DOMAIN frame.prd.subjects : frame.prd.subjects[i].v.grade \in Range(GradeKeys)
    /\ frame.prd.stored # None =>
          LET upper_token == remove_spaces(upper(strip(frame.prd.grade_match)))
              read_as == IF pc = "prd_lines" /\ upper_token = S("O+") THEN S("O")
                         ELSE upper_token
          IN /\ read_as \in Range(GradeKeys)
             /\ Get(frame.prd.subjects, frame.prd.stored).grade = read_as
    /\ \A i \in DOMAIN frame.cd.combined_data :
          LET record == frame.cd.combined_data[i].v
          IN /\ record.grade \in Range(GradeKeys)
             /\ record.grade_point = Get(GRADE_POINTS, record.grade)

\* a run whose result text holds an O+ line and an AB line: the first is
\* stored and combined as O with 10 points, the second produced no record
C8_Witness ==
    /\ pc = "psf_return"
    /\ ResultText = <<S("23XX3PCDB DB 1 2 3 O+"), S("23CS3PCOS OS 1 2 3 AB")>>
    /\ Keys(frame.prd.subjects) = <<S("23XX3PCDB")>>
    /\ Get(frame.prd.subjects, S("23XX3PCDB")).grade = S("O")
    /\ Get(frame.cd.combined_data, S("23XX3PCDB")).grade_point = 10

\* C9: once combine_data has passed a result record whose code, or else whose
\* normalized code, is a key of course_credits, the combined data hold the
\* record's code with the credit stored under that key, the record's grade,
\* grade_point = GRADE_POINTS[grade] and weighted_point = credit * grade_point
\* (grade A with credit 4 gives 8 and 32)
C9_DirectMatchCombined ==
    \A i \in 1..(frame.cd.s - 1) :
       LET subject_code == frame.cd.subjects[i].k
           subject_data == frame.cd.subjects[i].v
           course_credits == frame.pcd.course_credits
           credit == IF Has(course_credits, subject_code) THEN Get(course_credits, subject_code)
                     ELSE Get(course_credits, subject_data.normalized_code)
       IN Has(course_credits, subject_code) \/ Has(course_credits, subject_data.normalized_code) =>
            /\ Has(frame.cd.combined_data, subject_code)
            /\ LET record == Get(frame.cd.combined_data, subject_code)
               IN /\ record.credit = credit
                  /\ record.grade = subject_data.grade
                  /\ record.grade_point = Get(GRADE_POINTS, subject_data.grade)
                  /\ record.weighted_point = credit * record.grade_point
                  /\ subject_data.grade = S("A") /\ credit = 40 =>
                        record.grade_point = 8 /\ record.weighted_point = 320

\* the result line 23CS3CSFM ... A and the course line of the same code with
\* credit 4, next to a record that only the matcher could place
C9_Witness ==
    /\ pc = "psf_return"
    /\ ResultText = <<S("23CS3CSFM FM 60 55 50 A"), S("23XX3PCDB DB 1 2 3 O+")>>
    /\ Get(frame.pcd.course_credits, S("23CS3CSFM")) = 40
    /\ Get(frame.cd.combined_data, S("23CS3CSFM")).weighted_point = 320
    /\ ~Has(frame.pcd.course_credits, S("23XX3PCDB"))
    /\ Has(frame.cd.combined_data, S("23XX3PCDB"))

\* both documents of the run could be read
Readable ==
    /\ frame.psf.course_file.document # Unreadable
    /\ frame.psf.result_file.document # Unreadable

\* C12: a run of process_semester_files on two readable documents ends in
\* the 'no subjects found' error, with the course text not parsed, when the
\* result mapping is empty; otherwise in the 'no course credits found' error,
\* with nothing combined, when course_credits is empty; otherwise in the
\* 'could not match any subjects' error when the combined mapping is empty;
\* and it returns, with the SGPA calculate_sgpa gives for the combined
\* mapping, only when all three are non-empty
C12_FailsOnEmptyStage ==
    (pc \in {"psf_raise", "psf_return"} /\ Readable) =>
        IF frame.prd.subjects = <<>>
        THEN /\ pc = "psf_raise"
             /\ frame.psf.error = S("No subjects found in the results PDF. Please check the file.")
             /\ frame.pcd = CourseStart(<<>>)
             /\ frame.cd = CombineStart(<<>>)
        ELSE IF frame.pcd.course_credits = <<>>
        THEN /\ pc = "psf_raise"
             /\ frame.psf.error = S("No course credits found in the course PDF. Please check the file.")
             /\ frame.pcd.lines = text_lines(frame.psf.course_file.document)
             /\ frame.cd = CombineStart(<<>>)
        ELSE IF frame.cd.combined_data = <<>>
        THEN /\ pc = "psf_raise"
             /\ frame.psf.error = S("Could not match any subjects between the two files. Please check that both files are for the same semester.")
             /\ frame.cd.subjects = frame.prd.subjects
        ELSE /\ pc = "psf_return"
             /\ frame.psf.error = None
             /\ frame.psf.ret.sgpa = calculate_sgpa(frame.cd.combined_data).sgpa

\* a result text of no page: the run failed with the first error and the
\* course text, which holds a course, was never parsed
C12_Witness ==
    /\ pc = "psf_raise"
    /\ ResultText = <<>>
    /\ frame.psf.course_file.document = <<S("Course Title"), S("1 FM 23CS3CSFM L 4 4")>>
    /\ frame.psf.error = S("No subjects found in the results PDF. Please check the file.")
    /\ frame.pcd.lines = <<>>

\* the other two errors and the return, each reached by some run
C12_NoCredits ==
    /\ pc = "psf_raise" /\ Readable
    /\ frame.prd.subjects # <<>> /\ frame.pcd.course_credits = <<>>

C12_NoMatch ==
    /\ pc = "psf_raise" /\ Readable
    /\ frame.prd.subjects # <<>> /\ frame.pcd.course_credits # <<>>
    /\ frame.cd.combined_data = <<>>

\* the subjects calculate_sgpa counts in the combined mapping of the run
CountedSubjects == calculate_sgpa(frame.cd.combined_data).subject_points

\* the names the counted subjects carry
CountedNames == {CountedSubjects[n].name : n \in DOMAIN CountedSubjects}

\* C17: in what process_semester_files returns, subjects has one entry for
\* each subject calculate_sgpa counted, the credits of the entries add up to
\* total_credits and their weighted points to total_points
C17_ReportMatchesTotals ==
    pc = "psf_return" =>
        LET subjects == frame.psf.ret.subjects
        IN /\ Len(subjects) = Len(CountedSubjects)
           /\ sum([i \in DOMAIN subjects |-> subjects[i].v.credit]) = frame.psf.ret.total_credits
           /\ sum([i \in DOMAIN subjects |-> subjects[i].v.weighted_point])
                 = frame.psf.ret.total_points

\* two result codes that were given the name of the same course: both are
\* counted in the totals, and the report holds one entry under that name
C17_SameNameOneEntry ==
    /\ pc = "psf_return"
    /\ Len(CountedSubjects) = 2
    /\ Cardinality(CountedNames) = 1
    /\ Len(frame.psf.ret.subjects) = 1
    /\ frame.psf.ret.total_credits = 2 * frame.psf.ret.subjects[1].v.credit

\* what the code does hold: the totals are the sums over the counted
\* subjects, and the report has one entry for each name among them
C17_OneEntryPerName ==
    pc = "psf_return" =>
        /\ Len(frame.psf.ret.subjects) = Cardinality(CountedNames)
        /\ frame.psf.ret.total_credits
              = sum([n \in DOMAIN CountedSubjects |-> CountedSubjects[n].credit])
        /\ frame.psf.ret.total_points
              = sum([n \in DOMAIN CountedSubjects |-> CountedSubjects[n].weighted_point])

-----------------------------------------------------------------------------
(* calculate_sgpa applied to every mapping of at most MaxSubjects subjects   *)

MaxSubjects == 2

\* credits in tenths
SgpaCredits == {0, 5, 30, 35, 40}

SgpaGrades == {S("A+"), S("A"), S("O"), S("F")}

\* a subject's data, with or without a credit
SubjectData ==
    {[name |-> S("Name"), grade |-> g] : g \in SgpaGrades}
    \cup {[name |-> S("Name"), credit |-> c, grade |-> g] : c \in SgpaCredits, g \in SgpaGrades}

subject_key(i) == S("23CS3PCD") \o <<DigitSeq[i + 1]>>

SubjectMappings ==
    {[i \in DOMAIN data |-> [k |-> subject_key(i), v |-> data[i]]] :
        data \in UNION {[1..k -> SubjectData] : k \in 0..MaxSubjects}}

InitSgpa ==
    /\ pc = "sgpa_call"
    /\ frame \in {[entry |-> "calculate_sgpa", subjects |-> subjects, ret |-> None] :
                    subjects \in SubjectMappings}

SgpaCall ==
    /\ pc = "sgpa_call"
    /\ frame' = [frame EXCEPT !.ret = calculate_sgpa(frame.subjects)]
    /\ pc' = "sgpa_return"

NextSgpa == SgpaCall

SpecSgpa == InitSgpa /\ [][NextSgpa]_vars

\* the sum of f over the set
RECURSIVE sum_over(_, _)
sum_over(f, set) ==
    IF set = {} THEN 0
    ELSE f[CHOOSE x \in set : TRUE] + sum_over(f, set \ {CHOOSE x \in set : TRUE})

Abs(n) == IF n < 0 THEN -n ELSE n

\* hundredths is a hundredth nearest to points / credits
Nearest(hundredths, points, credits) ==
    2 * Abs(100 * points - hundredths * credits) <= credits

\* C4: calculate_sgpa lists exactly the subjects that have a credit other
\* than 0, in order, each with grade_point = GRADE_POINTS[grade] and
\* weighted_point = credit * grade_point; total_credits and the weighted sum
\* are the sums over them; sgpa is their quotient rounded to 2 decimals
\* (credits 4 and 3 with grades A and O give 8.86); and with total_credits 0
\* the result is (0, [], 0, 0)
C4_SgpaReference ==
    pc = "sgpa_return" =>
       LET subjects == frame.subjects
           kept == {i \in DOMAIN subjects :
                      "credit" \in DOMAIN subjects[i].v /\ subjects[i].v.credit # 0}
           credits == [i \in kept |-> subjects[i].v.credit]
           points == [i \in kept |->
                        subjects[i].v.credit * Get(GRADE_POINTS, subjects[i].v.grade)]
           listed == frame.ret.subject_points
       IN /\ Len(listed) = Cardinality(kept)
          /\ \A n \in DOMAIN listed :
                \E i \in kept :
                   /\ Cardinality({j \in kept : j < i}) = n - 1
                   /\ listed[n].code = subjects[i].k
                   /\ listed[n].credit = credits[i]
                   /\ listed[n].grade = subjects[i].v.grade
                   /\ listed[n].grade_point = Get(GRADE_POINTS, subjects[i].v.grade)
                   /\ listed[n].weighted_point = points[i]
          /\ frame.ret.total_credits = sum_over(credits, kept)
          /\ frame.ret.total_points = sum_over(points, kept)
          /\ IF sum_over(credits, kept) = 0
             THEN frame.ret = [sgpa |-> 0, subject_points |-> <<>>, total_credits |-> 0,
                               total_points |-> 0]
             ELSE Nearest(frame.ret.sgpa, sum_over(points, kept), sum_over(credits, kept))
          /\ (/\ Len(subjects) = 2
              /\ subjects[1].v = [name |-> S("Name"), credit |-> 40, grade |-> S("A")]
              /\ subjects[2].v = [name |-> S("Name"), credit |-> 30, grade |-> S("O")])
                => frame.ret.sgpa = 886

\* credits 4 and 3 with grades A and O
C4_Witness ==
    /\ pc = "sgpa_return"
    /\ Len(frame.subjects) = 2
    /\ frame.subjects[1].v = [name |-> S("Name"), credit |-> 40, grade |-> S("A")]
    /\ frame.subjects[2].v = [name |-> S("Name"), credit |-> 30, grade |-> S("O")]
    /\ frame.ret.sgpa = 886
    /\ frame.ret.total_credits = 70
    /\ frame.ret.total_points = 620

-----------------------------------------------------------------------------
(* calculate_cgpa applied to every semester_data of at most MaxSemesters     *)
(* semesters, entered in any order                                          *)

MaxSemesters == 3

\* a semester's totals in tenths
SemesterTotals ==
    {[total_credits |-> 0, total_points |-> 0], [total_credits |-> 200, total_points |-> 1600],
     [total_credits |-> 220, total_points |-> 1980]}

SemesterData ==
    {[i \in DOMAIN e |-> [k |-> e[i][1], v |-> e[i][2]]] :
        e \in {x \in UNION {[1..n -> (1..MaxSemesters) \X SemesterTotals] : n \in 0..MaxSemesters} :
                 \A i, j \in DOMAIN x : i # j => x[i][1] # x[j][1]}}

InitCgpa ==
    /\ pc = "cgpa_call"
    /\ frame \in {[entry |-> "calculate_cgpa", semester_data |-> semester_data, ret |-> None] :
                    semester_data \in SemesterData}

CgpaCall ==
    /\ pc = "cgpa_call"
    /\ frame' = [frame EXCEPT !.ret = calculate_cgpa(frame.semester_data)]
    /\ pc' = "cgpa_return"

NextCgpa == CgpaCall

SpecCgpa == InitCgpa /\ [][NextCgpa]_vars

\* semesters 1 and 2 with (20 credits, 160 points) and (22 credits, 198 points)
TwoSemesters ==
    <<[k |-> 1, v |-> [total_credits |-> 200, total_points |-> 1600]],
      [k |-> 2, v |-> [total_credits |-> 220, total_points |-> 1980]]>>

\* C5: the cgpa calculate_cgpa stores for a semester is the sum of
\* total_points of the semesters with an id up to its own over the sum of
\* their total_credits, rounded to 2 decimals, or 0 when that credit sum is
\* 0, whatever the order the semesters were entered in; the overall CGPA is
\* the cgpa stored for the highest id ((20, 160) and (22, 198) give 8.52 for
\* semester 2 and overall)
C5_RunningCgpa ==
    pc = "cgpa_return" =>
       LET semester_data == frame.semester_data
           stored == frame.ret.semester_data
           credits == [i \in DOMAIN semester_data |-> semester_data[i].v.total_credits]
           points == [i \in DOMAIN semester_data |-> semester_data[i].v.total_points]
           up_to(i) == {j \in DOMAIN semester_data : semester_data[j].k <= semester_data[i].k}
       IN /\ Len(stored) = Len(semester_data)
          /\ \A i \in DOMAIN semester_data :
                /\ stored[i].k = semester_data[i].k
                /\ IF sum_over(credits, up_to(i)) = 0 THEN stored[i].v.cgpa = 0
                   ELSE Nearest(stored[i].v.cgpa, sum_over(points, up_to(i)),
                                sum_over(credits, up_to(i)))
                /\ up_to(i) = DOMAIN semester_data => frame.ret.overall_cgpa = stored[i].v.cgpa
          /\ semester_data = <<>> => frame.ret.overall_cgpa = 0
          /\ semester_data = TwoSemesters =>
                stored[2].v.cgpa = 852 /\ frame.ret.overall_cgpa = 852

C5_Witness ==
    /\ pc = "cgpa_return"
    /\ frame.semester_data = TwoSemesters
    /\ frame.ret.semester_data[1].v.cgpa = 800
    /\ frame.ret.semester_data[2].v.cgpa = 852
    /\ frame.ret.overall_cgpa = 852

-----------------------------------------------------------------------------
(* The two request handlers on every request of at most MaxRequestSemesters *)
(* semesters, each upload missing, unnamed, misnamed or a PDF               *)

MaxRequestSemesters == 3

RequestCourseDocuments ==
    {Unreadable, <<S("Course Title"), S("1 FM 23CS3CSFM L 4 4")>>,
     <<S("Course Title"), S("2 LG 21CS4WXYZ L 2 1.5")>>}

RequestResultDocuments ==
    {<<S("23CS3CSFM FM 60 55 50 A")>>, <<S("23XX3PCDB DB 1 2 3 O+")>>,
     <<S("23CS3PCOS OS 1 2 3 AB")>>}

\* the uploads a request can hold under one key
Uploads(documents) ==
    {Missing}
    \cup {[present |-> TRUE, filename |-> f, document |-> Unreadable] :
            f \in {<<>>, S("a.txt"), S("pdf")}}
    \cup {[present |-> TRUE, filename |-> S("a.PDF"), document |-> d] : d \in documents}

\* request.form["semester_count"], None when the form has none
SemesterCounts ==
    {None, S("x"), S("0"), S("9")} \cup {<<DigitSeq[n + 1]>> : n \in 1..MaxRequestSemesters}

upload_files ==
    \/ \E course_pdf \in Uploads(RequestCourseDocuments),
          result_pdf \in Uploads(RequestResultDocuments) :
          UploadRequest(course_pdf, result_pdf)
    \/ UploadProcessed
    \/ UploadFailed

calculate_cgpa_route ==
    \/ \E semester_count \in SemesterCounts : CgpaRequest(semester_count)
    \/ \E course_pdf \in Uploads(RequestCourseDocuments),
          result_pdf \in Uploads(RequestResultDocuments) :
          CgpaSemester(course_pdf, result_pdf)
    \/ CgpaProcessed
    \/ CgpaFailed
    \/ CgpaDone

InitRequest ==
    /\ pc \in {"upload_files", "calculate_cgpa_route"}
    /\ frame = Frame(pc, RequestStart, ProcessStart(Missing, Missing, None))

NextRequest == upload_files \/ calculate_cgpa_route \/ process_semester_files

SpecRequest == InitRequest /\ [][NextRequest]_vars

\* the errors of the checks on the request: the uploads and the semester count
ValidationErrors ==
    {S("Both course and result PDFs are required"), S("No file selected"),
     S("File must be a PDF"), S("Semester count is required"),
     S("invalid literal for int() with base 10: 'x'"),
     S("Invalid semester count. Must be between 1 and 8.")}
    \cup UNION {{S("Files") \o for_semester(n) \o S(" are missing"),
                 S("No file selected") \o for_semester(n),
                 S("File must be a PDF") \o for_semester(n)} : n \in 1..SemesterLimit}

\* the semesters whose documents were given to the extractor
ExtractedSemesters == {frame.pdf_opened[i][2] : i \in DOMAIN frame.pdf_opened}

\* C6: when process_semester_files fails on semester k of a multi-semester
\* request, the response is an error naming semester k, no document of a
\* later semester was extracted, no later semester was stored, and
\* calculate_cgpa has not written a cgpa into the semesters stored before k
C6_StopsAtFirstFailure ==
    (pc = "req_return" /\ frame.entry = "calculate_cgpa_route" /\ frame.psf.error # None) =>
       /\ frame.req.response.status = 400
       /\ frame.req.response.error =
             S("Failed to process semester ") \o <<DigitSeq[frame.psf.sem_id + 1]>> \o S(": ")
                \o frame.psf.error
       /\ \A sem_id \in ExtractedSemesters : sem_id <= frame.psf.sem_id
       /\ Keys(frame.req.semester_data) = [n \in 1..(frame.psf.sem_id - 1) |-> n]
       /\ \A i \in DOMAIN frame.req.semester_data :
             "cgpa" \notin DOMAIN frame.req.semester_data[i].v

\* a request for three semesters whose second semester fails after the first
\* was stored
C6_Witness ==
    /\ pc = "req_return"
    /\ frame.entry = "calculate_cgpa_route"
    /\ frame.req.semester_count = 3
    /\ frame.psf.error = S("Unable to extract text from the provided PDF")
    /\ frame.psf.sem_id = 2
    /\ frame.req.response.error =
          S("Failed to process semester 2: Unable to extract text from the provided PDF")
    /\ Keys(frame.req.semester_data) = <<1>>

\* C7: a request that is answered with a validation error had none of its
\* documents extracted or parsed
C7_RejectedBeforeProcessing ==
    (pc = "req_return" /\ frame.req.response.error \in ValidationErrors) =>
       /\ frame.pdf_opened = <<>>
       /\ frame.req.semester_data = <<>>

=============================================================================
